---------------------------- MODULE Spec2Model ----------------------------
(***************************************************************************)
(* Model of the DevOpus generation pipeline (src/app.py, src/agent/graph.py,*)
(* src/db.py): the streaming initial run (generate_stream), the streaming   *)
(* follow-up run (followup_stream), the batch run (generate + the compiled  *)
(* graph), the JSON extraction from free model text, the file-set           *)
(* normalizer and the persistence calls.                                    *)
(*                                                                          *)
(* Text is a sequence of tokens.  Whitespace, the fence, the braces and the *)
(* JSON punctuation are tokens of their own, so strip(), split('\n'),       *)
(* startswith(fence) and the brace regex act on tokens exactly as the       *)
(* Python code acts on characters.  A token of StrLits is one JSON string   *)
(* literal (quotes included), a token of Words is bare prose.               *)
(***************************************************************************)
EXTENDS Integers, Sequences, FiniteSets, TLC

(* ------------------------------ bounds -------------------------------- *)

\* largest number of paths in a file set the model's coder may return
MaxFiles == 2

(* ------------------------------ tokens -------------------------------- *)

\* the three-backquote code fence
FENCE == "<fence>"
NL == "\n"
SP == " "
LBRACE == "{"
RBRACE == "}"
LBRACK == "["
RBRACK == "]"
COMMA == ","
COLON == ":"

Whitespace == {SP, NL}

\* JSON scalar literals that are not strings
NumLits == {"1"}
NullLits == {"null"}

\* paths a model may use as keys of a file set
Paths == {"/App.tsx", "App.tsx", "/App.js", "app.jsx", "/APP.JSX", "/package.json", "/README.md", "/src/App.js"}

\* file contents and other string values
Contents == {"code1", "code2"}

\* keys of the response envelope
EnvelopeKeys == {"files", "summary", "review_feedback"}

StrLits == Paths \cup Contents \cup EnvelopeKeys \cup {"did it", "looks fine"}

(* ------------------------- python str helpers ------------------------- *)

\* str.lower() on the paths of the model
Lower(p) ==
    CASE p = "/App.tsx" -> "/app.tsx"
      [] p = "App.tsx" -> "app.tsx"
      [] p = "/App.js" -> "/app.js"
      [] p = "app.jsx" -> "app.jsx"
      [] p = "/APP.JSX" -> "/app.jsx"
      [] p = "/package.json" -> "/package.json"
      [] p = "/README.md" -> "/readme.md"
      [] p = "/src/App.js" -> "/src/app.js"
      [] OTHER -> p

RECURSIVE LStrip(_, _)
\* str.lstrip() restricted to the characters of ws
LStrip(t, ws) ==
    IF t # <<>> /\ Head(t) \in ws THEN LStrip(Tail(t), ws) ELSE t

RECURSIVE RStrip(_, _)
\* str.rstrip() restricted to the characters of ws
RStrip(t, ws) ==
    IF t # <<>> /\ t[Len(t)] \in ws THEN RStrip(SubSeq(t, 1, Len(t) - 1), ws) ELSE t

\* str.strip()
Strip(t) == RStrip(LStrip(t, Whitespace), Whitespace)

\* str.startswith(fence)
StartsWithFence(t) == t # <<>> /\ Head(t) = FENCE

RECURSIVE SplitLines(_)
\* str.split('\n'): the lines of t, at least one
SplitLines(t) ==
    IF \A i \in 1..Len(t) : t[i] # NL
    THEN <<t>>
    ELSE LET i == CHOOSE i \in 1..Len(t) : t[i] = NL /\ \A j \in 1..(i - 1) : t[j] # NL
         IN  <<SubSeq(t, 1, i - 1)>> \o SplitLines(SubSeq(t, i + 1, Len(t)))

RECURSIVE JoinLines(_)
\* '\n'.join(lines)
JoinLines(lines) ==
    IF lines = <<>> THEN <<>>
    ELSE IF Len(lines) = 1 THEN lines[1]
    ELSE lines[1] \o <<NL>> \o JoinLines(Tail(lines))

\* line.strip() == fence
IsFenceLine(line) == Strip(line) = <<FENCE>>

RECURSIVE DropFenceLines(_)
\* the lines that are not a bare fence
DropFenceLines(lines) ==
    IF lines = <<>> THEN <<>>
    ELSE IF IsFenceLine(Head(lines)) THEN DropFenceLines(Tail(lines))
    ELSE <<Head(lines)>> \o DropFenceLines(Tail(lines))

(* ------------------------------ JSON ---------------------------------- *)

\* a Python value as json.loads builds it: k is its kind; m is the text of a str
\* (a token sequence), the members of a dict (a function on its keys) or the
\* elements of a list (a sequence)
PyStr(t) == [k |-> "str", m |-> t]
JStr(x) == PyStr(<<x>>)
JNum == [k |-> "num", m |-> <<"1">>]
JObj(members) == [k |-> "obj", m |-> members]
JArr(elems) == [k |-> "arr", m |-> elems]
\* Python's None, which is also what json.loads makes of null
None == [k |-> "none", m |-> <<>>]

\* bool(v) is False
Falsy(v) == v.k = "none" \/ (v.k \in {"str", "obj", "arr"} /\ DOMAIN v.m = {})

ParseFail == [ok |-> FALSE, val |-> None, next |-> 0]
ParseOk(v, n) == [ok |-> TRUE, val |-> v, next |-> n]

RECURSIVE SkipWs(_, _)
\* the first position from i on that holds no whitespace
SkipWs(t, i) ==
    IF i <= Len(t) /\ t[i] \in Whitespace THEN SkipWs(t, i + 1) ELSE i

\* dict[key] = v
Put(members, key, v) ==
    [x \in (DOMAIN members) \cup {key} |-> IF x = key THEN v ELSE members[x]]

RECURSIVE ParseValue(_, _)
RECURSIVE ParseMembers(_, _, _)
RECURSIVE ParseElems(_, _, _)

\* after the member key: v, at position e the comma or the closing brace
AfterMember(t, key, acc, v, e) ==
    IF ~v.ok \/ e > Len(t) THEN ParseFail
    ELSE IF t[e] = COMMA THEN ParseMembers(t, e + 1, Put(acc, key, v.val))
    ELSE IF t[e] = RBRACE THEN ParseOk(JObj(Put(acc, key, v.val)), e + 1)
    ELSE ParseFail

\* the value of the member whose key is at j and whose colon is at c
MemberValue(t, j, c, acc, v) ==
    AfterMember(t, t[j], acc, v, IF v.ok THEN SkipWs(t, v.next) ELSE 0)

\* a member "key": value with its key at j and its colon at c
MemberAt(t, j, c, acc) ==
    IF j > Len(t) \/ c > Len(t) THEN ParseFail
    ELSE IF t[j] \notin StrLits \/ t[c] # COLON THEN ParseFail
    ELSE MemberValue(t, j, c, acc, ParseValue(t, c + 1))

\* the members of an object from position i on, up to its closing brace
ParseMembers(t, i, acc) == MemberAt(t, SkipWs(t, i), SkipWs(t, SkipWs(t, i) + 1), acc)

\* after the element v: at position e the comma or the closing bracket
AfterElem(t, acc, v, e) ==
    IF ~v.ok \/ e > Len(t) THEN ParseFail
    ELSE IF t[e] = COMMA THEN ParseElems(t, e + 1, Append(acc, v.val))
    ELSE IF t[e] = RBRACK THEN ParseOk(JArr(Append(acc, v.val)), e + 1)
    ELSE ParseFail

ElemValue(t, acc, v) == AfterElem(t, acc, v, IF v.ok THEN SkipWs(t, v.next) ELSE 0)

\* the elements of an array from position i on, up to its closing bracket
ParseElems(t, i, acc) == ElemValue(t, acc, ParseValue(t, i))

\* the value whose first token is at j; b is the first position after it
\* that holds no whitespace
ValueAt(t, j, b) ==
    IF j > Len(t) THEN ParseFail
    ELSE IF t[j] = LBRACE
         THEN IF b <= Len(t) /\ t[b] = RBRACE THEN ParseOk(JObj(<<>>), b + 1)
              ELSE ParseMembers(t, j + 1, <<>>)
    ELSE IF t[j] = LBRACK
         THEN IF b <= Len(t) /\ t[b] = RBRACK THEN ParseOk(JArr(<<>>), b + 1)
              ELSE ParseElems(t, j + 1, <<>>)
    ELSE IF t[j] \in StrLits THEN ParseOk(JStr(t[j]), j + 1)
    ELSE IF t[j] \in NumLits THEN ParseOk(JNum, j + 1)
    ELSE IF t[j] \in NullLits THEN ParseOk(None, j + 1)
    ELSE ParseFail

\* one JSON value starting at or after position i
ParseValue(t, i) == ValueAt(t, SkipWs(t, i), SkipWs(t, SkipWs(t, i) + 1))

\* the value r parsed from the start of t is all of t but whitespace
WholeText(t, r) == IF r.ok /\ SkipWs(t, r.next) > Len(t) THEN r ELSE ParseFail

\* json.loads(t): ok is FALSE where Python raises JSONDecodeError
JsonLoads(t) == WholeText(t, ParseValue(t, 1))

\* the text from the first of opens to the last of closes
SpanBetween(t, opens, closes) ==
    IF opens = {} \/ closes = {} THEN [found |-> FALSE, text |-> <<>>]
    ELSE IF (CHOOSE i \in opens : \A j \in opens : i <= j)
            < (CHOOSE i \in closes : \A j \in closes : j <= i)
    THEN [found |-> TRUE,
          text |-> SubSeq(t, CHOOSE i \in opens : \A j \in opens : i <= j,
                             CHOOSE i \in closes : \A j \in closes : j <= i)]
    ELSE [found |-> FALSE, text |-> <<>>]

\* re.search(r'\{[\s\S]*\}', t): from the first '{' to the last '}'
BraceSpan(t) ==
    SpanBetween(t, {i \in 1..Len(t) : t[i] = LBRACE}, {i \in 1..Len(t) : t[i] = RBRACE})

(* --------------------------- the Code stage --------------------------- *)

\* the length of the response preview in an extraction error, in tokens
PreviewLen == 500

\* cleaned_text[:500]
Preview(t) == SubSeq(t, 1, IF Len(t) < PreviewLen THEN Len(t) ELSE PreviewLen)

\* the lower-cased keys the normalizer removes
Denylist == {"/app.js", "/app.jsx", "app.js", "app.jsx"}

\* the result of a call that may raise: ok, the value returned, str(e)
Return(v) == [ok |-> TRUE, val |-> v, msg |-> <<>>]
Raise(m) == [ok |-> FALSE, val |-> None, msg |-> m]

MsgNoJson == "No JSON object found in coder response"
MsgBadJson == "Could not parse JSON: <JSONDecodeError>"
MsgNotIterable == "TypeError: argument is not iterable"
MsgNoGet == "AttributeError: object has no attribute 'get'"
MsgNoAppTsx == "No App.tsx found in current files"
MsgValidation == "ValidationError: GeneratedProject.files"

\* the removal of the fence lines of the stripped text
UnfenceText(cleaned_text) ==
    IF StartsWithFence(cleaned_text)
    THEN JoinLines(DropFenceLines(Tail(SplitLines(cleaned_text))))
    ELSE cleaned_text

\* response_text.strip() and the removal of the fence lines
CleanFences(response_text) == UnfenceText(Strip(response_text))

Parsed(data, why, cleaned_text) ==
    [ok |-> why \in {"direct", "salvage"}, data |-> data, why |-> why, text |-> cleaned_text]

\* the json.loads of the regex match
SalvagedFrom(cleaned_text, salvaged) ==
    IF salvaged.ok THEN Parsed(salvaged.val, "salvage", cleaned_text)
    ELSE Parsed(None, "badjson", cleaned_text)

\* the fallback: re.search, and json.loads of its match
Salvage(cleaned_text, span) ==
    IF ~span.found THEN Parsed(None, "nomatch", cleaned_text)
    ELSE SalvagedFrom(cleaned_text, JsonLoads(span.text))

\* the layers in the other order: the brace span first, json.loads of the text last
DirectOr_SalvageFirst(cleaned_text, direct) ==
    IF Salvage(cleaned_text, BraceSpan(cleaned_text)).ok
    THEN Salvage(cleaned_text, BraceSpan(cleaned_text))
    ELSE IF direct.ok THEN Parsed(direct.val, "direct", cleaned_text)
    ELSE Salvage(cleaned_text, BraceSpan(cleaned_text))

\* the result of json.loads(cleaned_text), or the fallback on JSONDecodeError
DirectOr(cleaned_text, direct) ==
    IF direct.ok THEN Parsed(direct.val, "direct", cleaned_text)
    ELSE Salvage(cleaned_text, BraceSpan(cleaned_text))

\* json.loads(cleaned_text), and on JSONDecodeError the brace span: why is
\* "nomatch" when the regex finds nothing, "badjson" when its match does not parse
LoadOrSalvage(cleaned_text) == DirectOr(cleaned_text, JsonLoads(cleaned_text))

\* "files" in generated_data, for the kinds on which Python evaluates it
HasFilesKey(d) ==
    CASE d.k = "obj" -> "files" \in DOMAIN d.m
      [] d.k = "arr" -> \E i \in DOMAIN d.m : d.m[i].k = "str" /\ d.m[i].m = <<"files">>
      [] d.k = "str" -> \E i \in DOMAIN d.m : d.m[i] = "files"
      [] OTHER -> FALSE

\* a selection that takes the whole parsed value as the file set
SelectFiles_WholeObject(d) ==
    IF d.k \in {"num", "none"} THEN Raise(<<MsgNotIterable>>) ELSE Return(d)

\* files_dict = generated_data["files"] if "files" in generated_data else generated_data
SelectFiles(d) ==
    IF d.k \in {"num", "none"} THEN Raise(<<MsgNotIterable>>)
    ELSE IF ~HasFilesKey(d) THEN Return(d)
    ELSE IF d.k = "obj" THEN Return(d.m["files"])
    ELSE Raise(<<"TypeError: indices must be integers">>)

\* a dict restricted to the keys in keep
Restrict(members, keep) ==
    IF keep = {} THEN <<>> ELSE [x \in keep |-> members[x]]

\* a removal pass that drops one conflicting key and leaves the others
RemoveConflicting_OnePass(files_dict) ==
    LET hit == {path \in DOMAIN files_dict.m : Lower(path) \in Denylist}
    IN  IF hit = {} THEN files_dict
        ELSE JObj(Restrict(files_dict.m, DOMAIN files_dict.m \ {CHOOSE path \in hit : TRUE}))

\* a removal that also drops the entry point written without a separator
RemoveConflicting_Greedy(files_dict) ==
    JObj(Restrict(files_dict.m, {path \in DOMAIN files_dict.m : Lower(path) \notin Denylist \cup {"app.tsx"}}))

\* the removal of the conflicting files: every key whose lower() is denylisted
RemoveConflicting(files_dict) ==
    JObj(Restrict(files_dict.m, {path \in DOMAIN files_dict.m : Lower(path) \notin Denylist}))

\* the file set selected by sel, normalized, or the exception
NormalizeSelected(sel) ==
    IF ~sel.ok THEN sel
    ELSE IF sel.val.k # "obj" THEN Raise(<<"AttributeError: object has no attribute 'keys'">>)
    ELSE Return(RemoveConflicting(sel.val))

\* run_coder_agent from the parse on
FilesOfParsed(parsed) ==
    IF ~parsed.ok
    THEN Raise(<<IF parsed.why = "nomatch" THEN MsgNoJson ELSE MsgBadJson>>)
    ELSE NormalizeSelected(SelectFiles(parsed.data))

\* run_coder_agent after the model call: the file set, or the exception
RunCoderAgent(response_text) == FilesOfParsed(LoadOrSalvage(CleanFences(response_text)))

\* GeneratedProject(files=files_dict): a dict[str, str] or a validation error
ValidFiles(files_dict) ==
    \A path \in DOMAIN files_dict.m : files_dict.m[path].k = "str"

\* the GeneratedProject built from the normalized file set
ProjectOf(normalized) ==
    IF ~normalized.ok THEN normalized
    ELSE IF ~ValidFiles(normalized.val) THEN Raise(<<MsgValidation>>)
    ELSE normalized

\* coder_agent from the parse on: its errors carry the response preview
ProjectOfParsed(parsed) ==
    IF ~parsed.ok
    THEN Raise(<<IF parsed.why = "nomatch" THEN MsgNoJson ELSE MsgBadJson>> \o Preview(parsed.text))
    ELSE ProjectOf(NormalizeSelected(SelectFiles(parsed.data)))

\* coder_agent of the batch graph after the model call
CoderAgent(response_text) == ProjectOfParsed(LoadOrSalvage(CleanFences(response_text)))

(* ------------------------- the follow-up coder ------------------------ *)

DefaultSummary == PyStr(<<"Modifications applied successfully.">>)

\* current_files.get("/App.tsx", current_files.get("App.tsx", ""))
CurrentCode(current_files) ==
    IF "/App.tsx" \in DOMAIN current_files THEN current_files["/App.tsx"]
    ELSE IF "App.tsx" \in DOMAIN current_files THEN current_files["App.tsx"]
    ELSE <<>>

\* a precondition that lets every current_files map through
FollowupPrecondition_Always(current_files) == TRUE

\* run_coder_followup up to the model call: raises when current_code is empty
FollowupPrecondition(current_files) == CurrentCode(current_files) # <<>>

\* the files and the summary of the parsed response
FollowupResult(data, sel) ==
    IF ~sel.ok THEN sel
    ELSE IF data.k # "obj" THEN Raise(<<MsgNoGet>>)
    ELSE Return([files |-> sel.val,
                 summary |-> IF "summary" \in DOMAIN data.m THEN data.m["summary"]
                             ELSE DefaultSummary])

\* run_coder_followup from the parse on
FollowupOfParsed(parsed) ==
    IF ~parsed.ok
    THEN Raise(<<IF parsed.why = "nomatch" THEN MsgNoJson ELSE MsgBadJson>>)
    ELSE FollowupResult(parsed.data, SelectFiles(parsed.data))

\* run_coder_followup after the model call: {"files": ..., "summary": ...}
RunCoderFollowup(response_text) == FollowupOfParsed(LoadOrSalvage(CleanFences(response_text)))

(* -------------------------- the Review stage -------------------------- *)

\* lines[1:-1] if lines[-1].strip() == fence else lines[1:]
ReviewFenceBody(lines) ==
    IF IsFenceLine(lines[Len(lines)]) THEN SubSeq(lines, 2, Len(lines) - 1) ELSE Tail(lines)

\* the removal of the fence lines of the stripped review text
UnfenceReview(stripped) ==
    IF StartsWithFence(stripped) THEN JoinLines(ReviewFenceBody(SplitLines(stripped)))
    ELSE stripped

\* review_data.get("review_feedback", review_text), or the raw text when
\* json.loads raised JSONDecodeError
FeedbackOf(review_text, loaded) ==
    IF ~loaded.ok THEN Return(PyStr(review_text))
    ELSE IF loaded.val.k # "obj" THEN Raise(<<MsgNoGet>>)
    ELSE IF "review_feedback" \in DOMAIN loaded.val.m
         THEN Return(loaded.val.m["review_feedback"])
    ELSE Return(PyStr(review_text))

\* the parse of the reviewer's text in generate_stream: the feedback, or the
\* exception that is not a JSONDecodeError
ParseReview(review_text) == FeedbackOf(review_text, JsonLoads(UnfenceReview(Strip(review_text))))

\* review_feedback if isinstance(review_feedback, str) else str(review_feedback)
ReviewSnapshot(review_feedback) ==
    IF review_feedback.k = "str" THEN review_feedback
    ELSE PyStr(<<"str()", review_feedback.k>>)

(* ------------------------ plan and architecture ----------------------- *)

\* the Plan objects the planner model may return (name, description)
Plans == {[name |-> "todo", description |-> "a todo app"],
          [name |-> "blog", description |-> "a blog"]}

\* the architecture_diagram strings the architect model may return
Diagrams == {<<>>,
             <<"graph TD">>,
             <<FENCE, "mermaid", NL, "graph TD", NL, FENCE>>,
             <<SP, FENCE, NL, "graph TD">>}

\* the TaskPlan objects the architect model may return; plan is the extra
\* field the schema allows the model to set (NoPlan when it does not)
NoPlan == [name |-> "", description |-> ""]
TaskPlans == [architecture_diagram : Diagrams, implementation_steps : {<<"/App.tsx">>},
              plan : Plans \cup {NoPlan}]

\* format_plan_as_text of a Plan: the header, then its fields
format_plan_as_text(plan_obj) == <<"PROJECT PLAN", plan_obj.name, plan_obj.description>>

\* format_architect_as_text of a TaskPlan: the header, then one line per step
format_architect_as_text(task_plan_obj) ==
    <<"IMPLEMENTATION STEPS">> \o task_plan_obj.implementation_steps

\* extract_architecture_diagram of a TaskPlan
extract_architecture_diagram(task_plan_obj) ==
    LET diagram == Strip(task_plan_obj.architecture_diagram)
        lines == SplitLines(diagram)
    IN  IF task_plan_obj.architecture_diagram = <<>> THEN <<>>
        ELSE IF StartsWithFence(diagram)
             THEN Strip(JoinLines(IF IsFenceLine(lines[Len(lines)])
                                  THEN SubSeq(lines, 2, Len(lines) - 1)
                                  ELSE Tail(lines)))
        ELSE diagram

\* extract_architecture_diagram of any object: "" for None, for an object
\* without the attribute, and for a diagram that is empty or no str
ExtractDiagram(task_plan_obj) ==
    IF task_plan_obj.k # "obj" THEN <<>>
    ELSE IF "architecture_diagram" \notin DOMAIN task_plan_obj.m THEN <<>>
    ELSE IF task_plan_obj.m["architecture_diagram"].k # "str" THEN <<>>
    ELSE extract_architecture_diagram(
             [architecture_diagram |-> task_plan_obj.m["architecture_diagram"].m,
              implementation_steps |-> <<>>, plan |-> NoPlan])

(* ----------------------------- the store ------------------------------ *)

\* the project identifiers of the store; NoId is an absent (None) identifier
ProjectIds == {"p1", "p2", "p3"}
NoId == ""

\* the calls of save_version: only the first one that raises matters
SaveVersionFailures == {{}, {"latest"}, {"count"}, {"insert"}, {"sync"}}

\* which calls raise in the persistence step of an initial run, of a follow-up
InitialFailures == {f \cup g : f \in SUBSET {"create", "update"}, g \in SaveVersionFailures}
FollowupFailures == {f \cup g : f \in SUBSET {"get", "update"}, g \in SaveVersionFailures}

EmptyDb == [projects |-> <<>>, versions |-> <<>>]

\* one call issued to the store, and whether it raised
DbCall(op, fails, site) == [op |-> op, ok |-> site \notin fails]

\* an or that never falls back to its second operand
PyOr_First(a, b) == a

\* a or b
PyOr(a, b) == IF Falsy(a) THEN b ELSE a

\* an update that matches no row
UpdateProject_NoRow(db, project_id, fields) == db

\* supabase.table("projects").update(fields).eq("id", project_id): no row, no change
UpdateProject(db, project_id, fields) ==
    IF project_id \notin DOMAIN db.projects THEN db
    ELSE [db EXCEPT !.projects[project_id] =
             [c \in DOMAIN @ |-> IF c \in DOMAIN fields THEN fields[c] ELSE @[c]]]

\* create_project: the row inserted, or {} when the insert returns no row
create_project(db, user_id, name, description, fails, returnsRow) ==
    LET id == CHOOSE i \in ProjectIds : i \notin DOMAIN db.projects
        row == [user_id |-> user_id, name |-> name, description |-> description,
                code_snapshot |-> None, plan_snapshot |-> None,
                architect_snapshot |-> None, diagram_snapshot |-> None,
                review_snapshot |-> None]
    IN  IF "create" \in fails \/ ~returnsRow
        THEN [raised |-> "create" \in fails, db |-> db, id |-> NoId,
              calls |-> <<DbCall("projects.insert", fails, "create")>>]
        ELSE [raised |-> FALSE,
              db |-> [db EXCEPT !.projects =
                         [i \in DOMAIN @ \cup {id} |-> IF i = id THEN row ELSE @[i]]],
              id |-> id,
              calls |-> <<DbCall("projects.insert", fails, "create")>>]

\* get_latest_version: the newest version row of the project, or {}
get_latest_version(db, project_id) ==
    LET mine == {i \in DOMAIN db.versions : db.versions[i].project_id = project_id}
    IN  IF mine = {} THEN [found |-> FALSE, row |-> None]
        ELSE [found |-> TRUE,
              row |-> db.versions[CHOOSE i \in mine : \A j \in mine : j <= i]]

\* save_version: the snapshots inherited, the version row inserted, the
\* project's code_snapshot synced
save_version(db, project_id, prompt, code_snapshot, plan_snapshot, architect_snapshot, diagram_snapshot, review_snapshot, summary, fails) ==
    LET inherit == Falsy(plan_snapshot) \/ Falsy(architect_snapshot)
        latest == get_latest_version(db, project_id)
        use == inherit /\ latest.found
        row == [project_id |-> project_id, prompt |-> prompt,
                code_snapshot |-> code_snapshot,
                plan_snapshot |-> IF use THEN PyOr(plan_snapshot, latest.row.plan_snapshot)
                                  ELSE plan_snapshot,
                architect_snapshot |-> IF use THEN PyOr(architect_snapshot, latest.row.architect_snapshot)
                                       ELSE architect_snapshot,
                diagram_snapshot |-> IF use THEN PyOr(diagram_snapshot, latest.row.diagram_snapshot)
                                     ELSE diagram_snapshot,
                review_snapshot |-> IF use THEN PyOr(review_snapshot, latest.row.review_snapshot)
                                    ELSE review_snapshot,
                summary |-> summary]
        c1 == IF inherit THEN <<DbCall("versions.select_latest", fails, "latest")>> ELSE <<>>
        c2 == c1 \o <<DbCall("versions.select_ids", fails, "count")>>
        insertOk == "insert" \notin fails /\ project_id \in DOMAIN db.projects
        c3 == c2 \o <<[op |-> "versions.insert", ok |-> insertOk]>>
        c4 == c3 \o <<DbCall("projects.update", fails, "sync")>>
        inserted == [db EXCEPT !.versions = Append(@, row)]
        synced == IF Falsy(code_snapshot) THEN inserted
                  ELSE UpdateProject(inserted, project_id, [code_snapshot |-> code_snapshot])
    IN  IF inherit /\ "latest" \in fails THEN [raised |-> TRUE, db |-> db, calls |-> c1]
        ELSE IF "count" \in fails THEN [raised |-> TRUE, db |-> db, calls |-> c2]
        ELSE IF ~insertOk THEN [raised |-> TRUE, db |-> db, calls |-> c3]
        ELSE IF "sync" \in fails THEN [raised |-> TRUE, db |-> inserted, calls |-> c4]
        ELSE [raised |-> FALSE, db |-> synced, calls |-> c4]

\* a combined snapshot that leaves the files out
CodeEntries_Empty(files_dict) == JObj(<<>>)

\* {path: {"code": content} for path, content in files_dict.items()}
CodeEntries(files_dict) ==
    JObj(IF DOMAIN files_dict.m = {} THEN <<>>
         ELSE [path \in DOMAIN files_dict.m |-> JObj([c \in {"code"} |-> files_dict.m[path]])])

\* existing.get(key, "")
GetOrEmpty(existing, key) ==
    IF key \in DOMAIN existing.m THEN existing.m[key] ELSE PyStr(<<>>)

(* ------------------- the persistence step of a run -------------------- *)

\* code_snapshot_full of generate_stream
InitialSnapshot(prompt, plan_text, architect_text, diagram_code, files_dict, review_feedback) ==
    JObj([c \in {"files", "plan_snapshot", "architect_snapshot", "diagram_snapshot",
                 "review_snapshot", "prompt"} |->
            CASE c = "files" -> CodeEntries(files_dict)
              [] c = "plan_snapshot" -> PyStr(plan_text)
              [] c = "architect_snapshot" -> PyStr(architect_text)
              [] c = "diagram_snapshot" -> PyStr(diagram_code)
              [] c = "review_snapshot" -> ReviewSnapshot(review_feedback)
              [] OTHER -> PyStr(<<prompt>>)])

\* step 5 of generate_stream, entered when user_id is set and the store is
\* configured: emit is the event it yields ("none" when it yields nothing)
PersistInitial(db, user_id, project_id, prompt, plan_resp, plan_text, architect_text, diagram_code, files_dict, review_feedback, fails, returnsRow) ==
    LET created == IF project_id = NoId
                   THEN create_project(db, user_id, plan_resp.name, plan_resp.description,
                                       fails, returnsRow)
                   ELSE [raised |-> FALSE, db |-> db, id |-> project_id, calls |-> <<>>]
        fields == [code_snapshot |-> InitialSnapshot(prompt, plan_text, architect_text,
                                                     diagram_code, files_dict, review_feedback),
                   plan_snapshot |-> PyStr(plan_text),
                   architect_snapshot |-> PyStr(architect_text),
                   diagram_snapshot |-> PyStr(diagram_code),
                   review_snapshot |-> ReviewSnapshot(review_feedback)]
        updated == IF "update" \in fails THEN created.db
                   ELSE UpdateProject(created.db, created.id, fields)
        saved == save_version(updated, created.id, PyStr(<<prompt>>), files_dict,
                              PyStr(plan_text), PyStr(architect_text), PyStr(diagram_code),
                              ReviewSnapshot(review_feedback), PyStr(<<>>), fails)
    IN  IF created.raised
        THEN [db |-> db, calls |-> created.calls, emit |-> "save_error", project_id |-> project_id]
        ELSE IF created.id = NoId
        THEN [db |-> created.db, calls |-> created.calls, emit |-> "none", project_id |-> NoId]
        ELSE [db |-> saved.db,
              calls |-> created.calls \o <<DbCall("projects.update", fails, "update")>> \o saved.calls,
              emit |-> "saved", project_id |-> created.id]

\* the persistence step of followup_stream, entered when user_id and
\* project_id are set and the store is configured; it always yields saved
PersistFollowup(db, project_id, modification_request, files_dict, summary, fails) ==
    LET getOk == "get" \notin fails /\ project_id \in DOMAIN db.projects
        existing == IF getOk /\ ~Falsy(db.projects[project_id].code_snapshot)
                    THEN db.projects[project_id].code_snapshot
                    ELSE JObj(<<>>)
        built == existing.k = "obj" /\ files_dict.k = "obj"
        full == JObj([c \in {"files", "plan_snapshot", "architect_snapshot", "diagram_snapshot",
                             "review_snapshot", "prompt", "last_followup", "followup_summary"} |->
                        CASE c = "files" -> CodeEntries(files_dict)
                          [] c = "last_followup" -> PyStr(<<modification_request>>)
                          [] c = "followup_summary" -> summary
                          [] OTHER -> GetOrEmpty(existing, c)])
        fields == [code_snapshot |-> full,
                   plan_snapshot |-> GetOrEmpty(existing, "plan_snapshot"),
                   architect_snapshot |-> GetOrEmpty(existing, "architect_snapshot"),
                   diagram_snapshot |-> GetOrEmpty(existing, "diagram_snapshot"),
                   review_snapshot |-> GetOrEmpty(existing, "review_snapshot")]
        c1 == <<[op |-> "projects.select", ok |-> getOk]>>
        c2 == IF built THEN c1 \o <<DbCall("projects.update", fails, "update")>> ELSE c1
        updated == IF built /\ "update" \notin fails
                   THEN UpdateProject(db, project_id, fields) ELSE db
        saved == save_version(updated, project_id, PyStr(<<modification_request>>), files_dict,
                              PyStr(<<>>), PyStr(<<>>), PyStr(<<>>), PyStr(<<>>), summary, fails)
    IN  [db |-> saved.db, calls |-> c2 \o saved.calls, emit |-> "saved", project_id |-> project_id]

(* ----------------------- what the models return ----------------------- *)

\* the paths of the model, in the order a response lists them
PathSeq == <<"/App.tsx", "App.tsx", "/App.js", "app.jsx", "/APP.JSX", "/package.json", "/README.md">>

RECURSIVE MembersText(_, _)
\* the members "path": "code1" of the paths at the indices S, comma separated
MembersText(S, first) ==
    IF S = {} THEN <<>>
    ELSE LET i == CHOOSE i \in S : \A j \in S : i <= j
         IN  (IF first THEN <<>> ELSE <<COMMA, SP>>)
             \o <<PathSeq[i], COLON, SP, "code1">> \o MembersText(S \ {i}, FALSE)

\* the text of the object {"path": "code1", ...}
FilesText(S) == <<LBRACE>> \o MembersText(S, TRUE) \o <<RBRACE>>

\* the text of the object {"files": body}
EnvelopeText(body) == <<LBRACE, "files", COLON, SP>> \o body \o <<RBRACE>>

\* the text of the object {"files": body, "summary": "did it"}
SummaryText(body) ==
    <<LBRACE, "files", COLON, SP>> \o body \o <<COMMA, NL, "summary", COLON, "did it", RBRACE>>

FileSets == {S \in SUBSET (1..Len(PathSeq)) : Cardinality(S) <= MaxFiles}

\* a well-formed response with an entry point and a conflicting sibling
BaseDoc == EnvelopeText(FilesText({1, 3}))

\* a response wrapped in fences, prose or whitespace
WrappedTexts ==
    {<<FENCE, "json", NL>> \o BaseDoc \o <<NL, FENCE>>,
     <<FENCE, NL>> \o BaseDoc \o <<NL, SP, FENCE, SP, NL>>,
     <<FENCE, "json", NL>> \o BaseDoc,
     <<"Here", SP>> \o BaseDoc \o <<SP, "thanks">>,
     <<NL, SP>> \o BaseDoc \o <<NL>>}

\* responses from which no JSON object can be parsed, directly or from a brace span
UnparsableTexts ==
    {<<"Here">>, <<LBRACE>>, <<RBRACE, SP, LBRACE>>, <<LBRACE, "Here", RBRACE>>,
     <<"Here", SP, LBRACE, "files", COLON>>}

\* responses that are empty, hold no JSON object, or whose files are no dict
BrokenTexts ==
    UnparsableTexts
    \cup {<<>>, <<LBRACK, "1", RBRACK>>, <<LBRACK, "files", RBRACK>>, <<"1">>, <<"null">>,
          <<"files">>, <<"code1">>,
          EnvelopeText(<<LBRACK, "1", RBRACK>>), EnvelopeText(<<"null">>), EnvelopeText(<<"code1">>)}

\* responses whose file set holds a content that is no string
OddTexts == {<<LBRACE, "/App.tsx", COLON, "1", RBRACE>>}

\* the texts the coder model may return
CoderTexts ==
    {EnvelopeText(FilesText(S)) : S \in FileSets}
    \cup {FilesText(S) : S \in {T \in FileSets : Cardinality(T) <= 1}}
    \cup {SummaryText(FilesText(S)) : S \in {{1}, {1, 3}}}
    \cup WrappedTexts \cup BrokenTexts \cup OddTexts

ReviewDoc == <<LBRACE, "review_feedback", COLON, SP, "looks fine", RBRACE>>

\* the texts the reviewer model may return
ReviewTexts ==
    {ReviewDoc,
     <<FENCE, "json", NL>> \o ReviewDoc \o <<NL, FENCE>>,
     <<"Here", SP>> \o ReviewDoc,
     <<"Here", SP, "thanks">>,
     <<>>,
     <<LBRACK, RBRACK>>,
     <<"looks fine">>,
     <<LBRACE, "summary", COLON, "did it", RBRACE>>,
     <<LBRACE, "review_feedback", COLON, "1", RBRACE>>}

\* the TaskPlans the architect model returns in a run
ArchitectReturns ==
    {tp \in TaskPlans :
        \/ tp.plan = NoPlan /\ tp.architecture_diagram = <<FENCE, "mermaid", NL, "graph TD", NL, FENCE>>
        \/ tp.plan.name = "blog" /\ tp.architecture_diagram = <<"graph TD">>}

\* what a structured-output call may do: return an object, return None, raise
MsgModelError == "model call failed"
MsgPlannerNone == "Planner failed to create a plan"
MsgArchitectNone == "Architect failed to create implementation steps"
MsgPlannerInvalid == "Planner did not return a valid response."
MsgArchitectInvalid == "Architect did not return a valid response."

(* ----------------------------- requests ------------------------------- *)

Modes == {"stream", "followup", "batch"}

Prompts == {"Build a todo app", "", " "}

\* the current_files maps a follow-up request may carry (path -> content)
CurrentFileSets ==
    {[p \in {"/App.tsx"} |-> <<"code1">>],
     [p \in {"App.tsx", "/package.json"} |-> <<"code1">>],
     [p \in {"/App.tsx", "App.tsx"} |-> IF p = "/App.tsx" THEN <<>> ELSE <<"code1">>],
     [p \in {"/App.tsx"} |-> <<>>],
     [p \in {"/package.json"} |-> <<"code1">>]}

NoFiles == <<>>

\* the store after one initial run of user u1 was persisted without failure
SeedRun ==
    LET plan == [name |-> "todo", description |-> "a todo app"]
        files == JObj([p \in {"/App.tsx"} |-> JStr("code2")])
    IN  PersistInitial(EmptyDb, "u1", NoId, "Build a todo app", plan, format_plan_as_text(plan),
                       <<"IMPLEMENTATION STEPS", "/App.tsx">>, <<"graph TD">>, files,
                       JStr("looks fine"), {}, TRUE)
SeedDb == SeedRun.db
SeedId == SeedRun.project_id

(* ------------------------------ state --------------------------------- *)

VARIABLES
    mode,        \* which endpoint serves the request: a member of Modes
    req,         \* the request: prompt, user_id, project_id, current_files
    configured,  \* database.is_configured()
    pc,          \* the position of the run: the stage of the last yield, or start, done
    events,      \* the StreamEvents yielded so far, in order
    calls,       \* the model calls made so far: model, result, and the number of events before it
    run,         \* the locals of the run
    db,          \* the store: projects by id, versions in insertion order
    dblog,       \* the store calls issued so far: op, ok, and the number of events before it
    response,    \* the HTTP response of the batch endpoint
    parked       \* the working data of a second, concurrent run while it does not step

vars == <<mode, req, configured, pc, events, calls, run, db, dblog, response, parked>>

\* a StreamEvent: the stage and the fields its payload may carry
Event(stage) ==
    [stage |-> stage, message |-> <<>>, plan |-> <<>>, architect |-> <<>>, diagram |-> <<>>,
     files |-> None, review |-> None, summary |-> None, project_id |-> NoId]

ErrorEvent(msg) == [Event("error") EXCEPT !.message = msg]

NoResponse == [status |-> 0, detail |-> <<>>, files |-> None, plan |-> <<>>,
               architect |-> <<>>, diagram |-> <<>>]

\* HTTPException(status_code=500, detail=str(e))
Http500(detail) == [NoResponse EXCEPT !.status = 500, !.detail = detail]

NoLocals ==
    [plan_resp |-> NoPlan, plan_text |-> <<>>,
     task_plan_resp |-> [architecture_diagram |-> <<>>, implementation_steps |-> <<>>, plan |-> NoPlan],
     architect_text |-> <<>>, diagram_code |-> <<>>,
     response_text |-> <<>>, files_dict |-> None,
     review_text |-> <<>>, review_feedback |-> None, summary |-> None,
     project_id |-> NoId]

\* no second run
Alone == [mode |-> "none"]

\* yield: the event is appended to the stream
Yield(ev) == events' = Append(events, ev)

\* a model is invoked; result is "object", "text", "none" or "raised"
Invoke(model, result) ==
    calls' = Append(calls, [model |-> model, result |-> result, at |-> Len(events)])

\* the store calls cs are issued
Issue(cs) == dblog' = dblog \o [i \in 1..Len(cs) |-> [op |-> cs[i].op, ok |-> cs[i].ok, at |-> Len(events)]]

Init ==
    /\ mode \in Modes
    /\ configured \in BOOLEAN
    /\ \E prompt \in Prompts, user_id \in {NoId, "u1"}, project_id \in {NoId, SeedId} :
          \E cf \in IF mode = "followup" THEN CurrentFileSets \cup {NoFiles} ELSE {NoFiles} :
             req = [prompt |-> prompt, user_id |-> user_id, project_id |-> project_id,
                    current_files |-> cf]
    /\ db \in IF configured /\ req.project_id # NoId THEN {EmptyDb, SeedDb} ELSE {EmptyDb}
    /\ pc = "start"
    /\ events = <<>>
    /\ calls = <<>>
    /\ run = [NoLocals EXCEPT !.project_id = req.project_id]
    /\ dblog = <<>>
    /\ response = NoResponse
    /\ parked = Alone

(* ---------------------------- the endpoints --------------------------- *)

\* a check that lets whitespace prompts and empty current_files through
Rejection_EmptyPromptOnly == IF req.prompt = "" THEN <<"Prompt is required">> ELSE <<>>

\* the detail of the HTTPException the endpoint raises before the run starts,
\* <<>> when it raises none: not prompt or not prompt.strip(), not current_files
Rejection ==
    IF req.prompt = "" \/ Strip(<<req.prompt>>) = <<>>
    THEN IF mode = "followup" THEN <<"Modification prompt is required">>
         ELSE <<"Prompt is required">>
    ELSE IF mode = "followup" /\ DOMAIN req.current_files = {}
    THEN <<"Current files are required">>
    ELSE <<>>

\* the endpoint raises HTTPException(status_code=400): no generator is made
Reject ==
    /\ pc = "start" /\ Rejection # <<>>
    /\ response' = [NoResponse EXCEPT !.status = 400, !.detail = Rejection]
    /\ pc' = "done"
    /\ UNCHANGED <<parked, mode, req, configured, events, calls, run, db, dblog>>

(* --------------------------- generate_stream -------------------------- *)

\* a failure that ends the generator without yielding the error event
Fail_Silent(msg) ==
    /\ pc' = "done"
    /\ UNCHANGED <<run, events>>

\* yield the terminal error event; the generator returns
Fail(msg) ==
    /\ Yield(ErrorEvent(msg))
    /\ pc' = "done"
    /\ UNCHANGED run

\* up to the first yield: the input is processed, planning is announced
GS_Planning ==
    /\ mode = "stream" /\ pc = "start" /\ Rejection = <<>>
    /\ Yield([Event("planning") EXCEPT !.message = <<"Constructing a Master Plan....">>])
    /\ pc' = "planning"
    /\ UNCHANGED <<parked, mode, req, configured, calls, run, db, dblog, response>>

\* the planner call, then plan_complete, or error when it returns None or raises
GS_PlanCall ==
    /\ mode = "stream" /\ pc = "planning"
    /\ \/ \E plan_resp \in Plans :
             /\ Invoke("planner", "object")
             /\ run' = [run EXCEPT !.plan_resp = plan_resp,
                                   !.plan_text = format_plan_as_text(plan_resp)]
             /\ Yield([Event("plan_complete") EXCEPT !.plan = format_plan_as_text(plan_resp)])
             /\ pc' = "plan_complete"
       \/ Invoke("planner", "none") /\ Fail(<<MsgPlannerNone>>)
       \/ Invoke("planner", "raised") /\ Fail(<<MsgModelError>>)
    /\ UNCHANGED <<parked, mode, req, configured, db, dblog, response>>

GS_Architecting ==
    /\ mode = "stream" /\ pc = "plan_complete"
    /\ Yield([Event("architecting") EXCEPT !.message = <<"Orchestrating things....">>])
    /\ pc' = "architecting"
    /\ UNCHANGED <<parked, mode, req, configured, calls, run, db, dblog, response>>

\* a SetPlan that keeps the plan the model put in the TaskPlan
SetPlan_Keeps(task_plan_resp, plan_resp) == task_plan_resp

\* the plan back-reference set on the TaskPlan the architect returned
SetPlan(task_plan_resp, plan_resp) == [task_plan_resp EXCEPT !.plan = plan_resp]

\* an architect step that gives up on a fenced diagram
ArchitectDone_Strict(task_plan_resp) ==
    IF StartsWithFence(Strip(task_plan_resp.architecture_diagram))
    THEN Fail(<<"Error extracting diagram">>)
    ELSE /\ run' = [run EXCEPT !.task_plan_resp = task_plan_resp,
                               !.architect_text = format_architect_as_text(task_plan_resp),
                               !.diagram_code = extract_architecture_diagram(task_plan_resp)]
         /\ Yield([Event("architect_complete") EXCEPT
                      !.architect = format_architect_as_text(task_plan_resp),
                      !.diagram = extract_architecture_diagram(task_plan_resp)])
         /\ pc' = "architect_complete"

\* the TaskPlan is kept, formatted, and architect_complete is yielded
ArchitectDone(task_plan_resp) ==
    /\ run' = [run EXCEPT !.task_plan_resp = task_plan_resp,
                          !.architect_text = format_architect_as_text(task_plan_resp),
                          !.diagram_code = extract_architecture_diagram(task_plan_resp)]
    /\ Yield([Event("architect_complete") EXCEPT
                 !.architect = format_architect_as_text(task_plan_resp),
                 !.diagram = extract_architecture_diagram(task_plan_resp)])
    /\ pc' = "architect_complete"

\* the architect call, then architect_complete, or error
GS_ArchitectCall ==
    /\ mode = "stream" /\ pc = "architecting"
    /\ \/ \E returned \in ArchitectReturns :
             Invoke("architect", "object") /\ ArchitectDone(SetPlan(returned, run.plan_resp))
       \/ Invoke("architect", "none") /\ Fail(<<MsgArchitectNone>>)
       \/ Invoke("architect", "raised") /\ Fail(<<MsgModelError>>)
    /\ UNCHANGED <<parked, mode, req, configured, db, dblog, response>>

\* GS_Coding without its yield: the coding event is never announced
GS_Coding_Unannounced ==
    /\ mode = "stream" /\ pc = "architect_complete"
    /\ pc' = "coding"
    /\ UNCHANGED <<parked, mode, req, configured, events, calls, run, db, dblog, response>>

GS_Coding ==
    /\ mode = "stream" /\ pc = "architect_complete"
    /\ Yield([Event("coding") EXCEPT !.message = <<"Generating the code....">>])
    /\ pc' = "coding"
    /\ UNCHANGED <<parked, mode, req, configured, calls, run, db, dblog, response>>

\* CoderDone that announces coding_complete whatever run_coder_agent did
CoderDone_Ignores(response_text, result) ==
    /\ run' = [run EXCEPT !.response_text = response_text, !.files_dict = result.val]
    /\ Yield([Event("coding_complete") EXCEPT !.files = result.val])
    /\ pc' = "coding_complete"

\* the outcome of run_coder_agent: coding_complete with the files, or error
CoderDone(response_text, result) ==
    IF result.ok
    THEN /\ run' = [run EXCEPT !.response_text = response_text, !.files_dict = result.val]
         /\ Yield([Event("coding_complete") EXCEPT !.files = result.val])
         /\ pc' = "coding_complete"
    ELSE /\ run' = [run EXCEPT !.response_text = response_text]
         /\ Yield(ErrorEvent(result.msg))
         /\ pc' = "done"

\* run_coder_agent in the executor, then coding_complete, or error
GS_CoderCall ==
    /\ mode = "stream" /\ pc = "coding"
    /\ \/ \E response_text \in CoderTexts :
             Invoke("coder", "text") /\ CoderDone(response_text, RunCoderAgent(response_text))
       \/ Invoke("coder", "raised") /\ Fail(<<MsgModelError>>)
    /\ UNCHANGED <<parked, mode, req, configured, db, dblog, response>>

\* GS_Reviewing yielding the coding_complete event a second time
GS_Reviewing_Repeats ==
    /\ mode = "stream" /\ pc = "coding_complete"
    /\ Yield([Event("coding_complete") EXCEPT !.files = run.files_dict])
    /\ pc' = "reviewing"
    /\ UNCHANGED <<parked, mode, req, configured, calls, run, db, dblog, response>>

GS_Reviewing ==
    /\ mode = "stream" /\ pc = "coding_complete"
    /\ Yield([Event("reviewing") EXCEPT !.message = <<"Reviewing code quality....">>])
    /\ pc' = "reviewing"
    /\ UNCHANGED <<parked, mode, req, configured, calls, run, db, dblog, response>>

\* ReviewDone that goes on to the save after its error event
ReviewDone_FallsThrough(review_text, result) ==
    /\ run' = [run EXCEPT !.review_text = review_text, !.review_feedback = result.val]
    /\ Yield(IF result.ok
             THEN [Event("complete") EXCEPT !.files = run.files_dict, !.review = result.val]
             ELSE ErrorEvent(result.msg))
    /\ pc' = "complete"

\* the outcome of the parse of the review: complete with files and review, or error
ReviewDone(review_text, result) ==
    IF result.ok
    THEN /\ run' = [run EXCEPT !.review_text = review_text, !.review_feedback = result.val]
         /\ Yield([Event("complete") EXCEPT !.files = run.files_dict, !.review = result.val])
         /\ pc' = "complete"
    ELSE /\ run' = [run EXCEPT !.review_text = review_text]
         /\ Yield(ErrorEvent(result.msg))
         /\ pc' = "done"

\* the reviewer call and the parse of its text, then complete, or error
GS_ReviewerCall ==
    /\ mode = "stream" /\ pc = "reviewing"
    /\ \/ \E review_text \in ReviewTexts :
             Invoke("reviewer", "text") /\ ReviewDone(review_text, ParseReview(review_text))
       \/ Invoke("reviewer", "raised") /\ Fail(<<MsgModelError>>)
    /\ UNCHANGED <<parked, mode, req, configured, db, dblog, response>>

\* the event the persistence step yields, if any
YieldSaved(p) ==
    events' = CASE p.emit = "saved" ->
                     Append(events, [Event("saved") EXCEPT !.project_id = p.project_id])
                [] p.emit = "save_error" ->
                     Append(events, [Event("save_error") EXCEPT !.message = <<"store call failed">>])
                [] OTHER -> events

\* the effect of the persistence step p on the store, the log and the stream
Persisted(p) ==
    /\ db' = p.db
    /\ Issue(p.calls)
    /\ run' = [run EXCEPT !.project_id = p.project_id]
    /\ YieldSaved(p)

\* the condition of step 5 without the user id
InitialSaves_AnyUser == configured

\* the condition of step 5: if user_id and database.is_configured()
InitialSaves == req.user_id # NoId /\ configured

\* step 5: the save to the store, then saved or save_error, and the run ends
GS_Persist ==
    /\ mode = "stream" /\ pc = "complete"
    /\ IF InitialSaves
       THEN \E fails \in InitialFailures, returnsRow \in BOOLEAN :
              Persisted(PersistInitial(db, req.user_id, run.project_id, req.prompt,
                                       run.plan_resp, run.plan_text, run.architect_text,
                                       run.diagram_code, run.files_dict, run.review_feedback,
                                       fails, returnsRow))
       ELSE UNCHANGED <<db, dblog, run, events>>
    /\ pc' = "done"
    /\ UNCHANGED <<parked, mode, req, configured, calls, response>>

(* --------------------------- followup_stream -------------------------- *)

\* a follow-up that calls the coder without yielding modifying
FS_Modifying_Silent ==
    /\ mode = "followup" /\ pc = "start" /\ Rejection = <<>>
    /\ pc' = "modifying"
    /\ UNCHANGED <<parked, mode, req, configured, events, calls, run, db, dblog, response>>

FS_Modifying ==
    /\ mode = "followup" /\ pc = "start" /\ Rejection = <<>>
    /\ Yield([Event("modifying") EXCEPT !.message = <<"Applying modifications....">>])
    /\ pc' = "modifying"
    /\ UNCHANGED <<parked, mode, req, configured, calls, run, db, dblog, response>>

\* a follow-up that lays the returned files over the current files
FollowupDone_Merges(response_text, result) ==
    IF result.ok /\ result.val.files.k = "obj"
    THEN /\ run' = [run EXCEPT !.response_text = response_text,
                               !.files_dict = JObj(result.val.files.m @@ [p \in DOMAIN req.current_files |-> PyStr(req.current_files[p])]),
                               !.summary = result.val.summary]
         /\ Yield([Event("complete") EXCEPT !.files = JObj(result.val.files.m @@ [p \in DOMAIN req.current_files |-> PyStr(req.current_files[p])]),
                                            !.summary = result.val.summary])
         /\ pc' = "complete"
    ELSE /\ run' = [run EXCEPT !.response_text = response_text]
         /\ Yield(ErrorEvent(<<MsgNoGet>>))
         /\ pc' = "done"

\* the outcome of run_coder_followup: complete with files and summary, or error
FollowupDone(response_text, result) ==
    IF result.ok
    THEN /\ run' = [run EXCEPT !.response_text = response_text,
                               !.files_dict = result.val.files,
                               !.summary = result.val.summary]
         /\ Yield([Event("complete") EXCEPT !.files = result.val.files,
                                            !.summary = result.val.summary])
         /\ pc' = "complete"
    ELSE /\ run' = [run EXCEPT !.response_text = response_text]
         /\ Yield(ErrorEvent(result.msg))
         /\ pc' = "done"

\* run_coder_followup in the executor, then complete, or error
FS_CoderCall ==
    /\ mode = "followup" /\ pc = "modifying"
    /\ IF ~FollowupPrecondition(req.current_files)
       THEN Fail(<<MsgNoAppTsx>>) /\ UNCHANGED calls
       ELSE \/ \E response_text \in CoderTexts :
                 Invoke("coder", "text")
                 /\ FollowupDone(response_text, RunCoderFollowup(response_text))
            \/ Invoke("coder", "raised") /\ Fail(<<MsgModelError>>)
    /\ UNCHANGED <<parked, mode, req, configured, db, dblog, response>>

\* a follow-up save that does not ask for a project id
FollowupSaves_NoProject == req.user_id # NoId /\ configured

\* the condition of the follow-up save
FollowupSaves == req.user_id # NoId /\ req.project_id # NoId /\ configured

\* the save of the follow-up, then saved, and the run ends
FS_Persist ==
    /\ mode = "followup" /\ pc = "complete"
    /\ IF FollowupSaves
       THEN \E fails \in FollowupFailures :
              Persisted(PersistFollowup(db, req.project_id, req.prompt, run.files_dict,
                                        run.summary, fails))
       ELSE UNCHANGED <<db, dblog, run, events>>
    /\ pc' = "done"
    /\ UNCHANGED <<parked, mode, req, configured, calls, response>>

(* ------------------- generate and the compiled graph ------------------ *)

\* the node raised: generate answers HTTPException(500, detail=str(e))
Abort(detail) ==
    /\ response' = Http500(detail)
    /\ pc' = "done"
    /\ UNCHANGED run

\* B_Planner without the None check: the graph goes on to the architect
B_Planner_Unchecked ==
    /\ mode = "batch" /\ pc = "start" /\ Rejection = <<>>
    /\ \/ \E plan_resp \in Plans :
             /\ Invoke("planner", "object")
             /\ run' = [run EXCEPT !.plan_resp = plan_resp]
             /\ pc' = "planner"
             /\ UNCHANGED response
       \/ /\ Invoke("planner", "none")
          /\ run' = [run EXCEPT !.plan_resp = NoPlan]
          /\ pc' = "planner"
          /\ UNCHANGED response
       \/ Invoke("planner", "raised") /\ Abort(<<MsgModelError>>)
    /\ UNCHANGED <<parked, mode, req, configured, events, db, dblog>>

\* node planner: the Plan, or ValueError when the model returns None
B_Planner ==
    /\ mode = "batch" /\ pc = "start" /\ Rejection = <<>>
    /\ \/ \E plan_resp \in Plans :
             /\ Invoke("planner", "object")
             /\ run' = [run EXCEPT !.plan_resp = plan_resp]
             /\ pc' = "planner"
             /\ UNCHANGED response
       \/ Invoke("planner", "none") /\ Abort(<<MsgPlannerInvalid>>)
       \/ Invoke("planner", "raised") /\ Abort(<<MsgModelError>>)
    /\ UNCHANGED <<parked, mode, req, configured, events, db, dblog>>

\* node architect: the TaskPlan with its plan set, or ValueError
B_Architect ==
    /\ mode = "batch" /\ pc = "planner"
    /\ \/ \E returned \in ArchitectReturns :
             /\ Invoke("architect", "object")
             /\ run' = [run EXCEPT !.task_plan_resp = SetPlan(returned, run.plan_resp)]
             /\ pc' = "architect"
             /\ UNCHANGED response
       \/ Invoke("architect", "none") /\ Abort(<<MsgArchitectInvalid>>)
       \/ Invoke("architect", "raised") /\ Abort(<<MsgModelError>>)
    /\ UNCHANGED <<parked, mode, req, configured, events, db, dblog>>

\* the GenerateResponse built from the final state of the graph
GenerateResponse(files) ==
    [status |-> 200, detail |-> <<>>, files |-> files,
     plan |-> format_plan_as_text(run.plan_resp),
     architect |-> format_architect_as_text(run.task_plan_resp),
     diagram |-> extract_architecture_diagram(run.task_plan_resp)]

\* the outcome of coder_agent: the response of generate
BatchDone(response_text, result) ==
    /\ run' = [run EXCEPT !.response_text = response_text, !.files_dict = result.val]
    /\ response' = IF result.ok THEN GenerateResponse(result.val) ELSE Http500(result.msg)
    /\ pc' = "done"

\* node coder, then the GenerateResponse, or the HTTPException of generate
B_Coder ==
    /\ mode = "batch" /\ pc = "architect"
    /\ \/ \E response_text \in CoderTexts :
             Invoke("coder", "text") /\ BatchDone(response_text, CoderAgent(response_text))
       \/ Invoke("coder", "raised") /\ Abort(<<MsgModelError>>)
    /\ UNCHANGED <<parked, mode, req, configured, events, db, dblog>>

Next ==
    \/ GS_Planning \/ GS_PlanCall \/ GS_Architecting \/ GS_ArchitectCall
    \/ GS_Coding \/ GS_CoderCall \/ GS_Reviewing \/ GS_ReviewerCall \/ GS_Persist
    \/ FS_Modifying \/ FS_CoderCall \/ FS_Persist
    \/ B_Planner \/ B_Architect \/ B_Coder
    \/ Reject

Spec == Init /\ [][Next]_vars

(* ------------------------- two concurrent runs ------------------------ *)

\* the working data of the run that steps: the locals of its generator (or
\* the state of its graph invocation), its request and its output so far
Context ==
    [mode |-> mode, req |-> req, pc |-> pc, events |-> events, calls |-> calls,
     run |-> run, response |-> response]

\* a Switch that leaves the locals in place, as if they were module globals
Switch_SharesLocals ==
    /\ parked # Alone /\ parked.pc # "done"
    /\ parked' = Context
    /\ mode' = parked.mode /\ req' = parked.req /\ pc' = parked.pc
    /\ events' = parked.events /\ calls' = parked.calls /\ response' = parked.response
    /\ UNCHANGED <<run, configured, db, dblog>>

\* at an await the event loop resumes the other run: the two runs trade
\* places, the store stays as it is
Switch ==
    /\ parked # Alone /\ parked.pc # "done"
    /\ parked' = Context
    /\ mode' = parked.mode /\ req' = parked.req /\ pc' = parked.pc
    /\ events' = parked.events /\ calls' = parked.calls /\ run' = parked.run
    /\ response' = parked.response
    /\ UNCHANGED <<configured, db, dblog>>

\* the answers the models give to the prompts built from a request
AnswerFor(prompt) ==
    IF prompt = "Build a blog"
    THEN [plan |-> CHOOSE p \in Plans : p.name = "blog",
          text |-> EnvelopeText(FilesText({1, 6})),
          review |-> <<"Here", SP, "thanks">>]
    ELSE [plan |-> CHOOSE p \in Plans : p.name = "todo",
          text |-> EnvelopeText(FilesText({1})),
          review |-> ReviewDoc]

\* the answers held in the locals of the stepping run are those to its request
FollowsRequest ==
    /\ run.plan_resp \in {NoPlan, AnswerFor(req.prompt).plan}
    /\ run.response_text \in {<<>>, AnswerFor(req.prompt).text}
    /\ run.review_text \in {<<>>, AnswerFor(req.prompt).review}

\* an initial streaming run for a blog, and beside it a run of any endpoint
\* for a todo app, on a new project or on the project of an earlier run
InitPair ==
    /\ configured \in BOOLEAN
    /\ db \in IF configured THEN {EmptyDb, SeedDb} ELSE {EmptyDb}
    /\ dblog = <<>>
    /\ mode = "stream"
    /\ req = [prompt |-> "Build a blog", user_id |-> "u2", project_id |-> NoId,
              current_files |-> NoFiles]
    /\ pc = "start" /\ events = <<>> /\ calls = <<>>
    /\ run = NoLocals
    /\ response = NoResponse
    /\ \E m \in Modes, project_id \in {NoId, SeedId} :
          /\ m = "followup" => project_id = SeedId
          /\ project_id = SeedId => db = SeedDb
          /\ parked = [mode |-> m,
                       req |-> [prompt |-> "Build a todo app", user_id |-> "u1",
                                project_id |-> project_id,
                                current_files |-> IF m = "followup"
                                                  THEN [p \in {"/App.tsx"} |-> <<"code1">>]
                                                  ELSE NoFiles],
                       pc |-> "start", events |-> <<>>, calls |-> <<>>,
                       run |-> [NoLocals EXCEPT !.project_id = project_id],
                       response |-> NoResponse]

\* a step of the run that holds the event loop, or a switch to the other run
NextPair ==
    \/ GS_Planning /\ FollowsRequest'
    \/ GS_PlanCall /\ FollowsRequest'
    \/ GS_Architecting /\ FollowsRequest'
    \/ GS_ArchitectCall /\ FollowsRequest'
    \/ GS_Coding /\ FollowsRequest'
    \/ GS_CoderCall /\ FollowsRequest'
    \/ GS_Reviewing /\ FollowsRequest'
    \/ GS_ReviewerCall /\ FollowsRequest'
    \/ GS_Persist /\ FollowsRequest'
    \/ FS_Modifying /\ FollowsRequest'
    \/ FS_CoderCall /\ FollowsRequest'
    \/ FS_Persist /\ FollowsRequest'
    \/ B_Planner /\ FollowsRequest'
    \/ B_Architect /\ FollowsRequest'
    \/ B_Coder /\ FollowsRequest'
    \/ Switch

SpecPair == InitPair /\ [][NextPair]_vars

(* -------------------- two runs on the same project -------------------- *)

\* an initial streaming run for a blog on the project of an earlier run, and
\* beside it a run of any endpoint for a todo app on that same project
InitSame ==
    /\ configured = TRUE
    /\ db = SeedDb
    /\ dblog = <<>>
    /\ mode = "stream"
    /\ req = [prompt |-> "Build a blog", user_id |-> "u1", project_id |-> SeedId,
              current_files |-> NoFiles]
    /\ pc = "start" /\ events = <<>> /\ calls = <<>>
    /\ run = [NoLocals EXCEPT !.project_id = SeedId]
    /\ response = NoResponse
    /\ \E m \in Modes :
          parked = [mode |-> m,
                    req |-> [prompt |-> "Build a todo app", user_id |-> "u1",
                             project_id |-> SeedId,
                             current_files |-> IF m = "followup"
                                               THEN [p \in {"/App.tsx"} |-> <<"code1">>]
                                               ELSE NoFiles],
                    pc |-> "start", events |-> <<>>, calls |-> <<>>,
                    run |-> [NoLocals EXCEPT !.project_id = SeedId],
                    response |-> NoResponse]

SpecSame == InitSame /\ [][NextPair]_vars

(* ------------------- a consumer that stops reading -------------------- *)

\* a consumer that stops and lets the generator go on to its next yield
Stop_LetsRun ==
    /\ mode \in {"stream", "followup"} /\ Rejection = <<>>
    /\ pc = "complete"
    /\ dblog' = Append(dblog, [op |-> "projects.update", ok |-> TRUE, at |-> Len(events)])
    /\ pc' = "stopped"
    /\ UNCHANGED <<parked, mode, req, configured, events, calls, run, db, response>>

\* the consumer of the StreamingResponse stops reading: the generator, which
\* is suspended at a yield or at an awaited call, is closed there and none of
\* its remaining statements runs
Stop ==
    /\ mode \in {"stream", "followup"} /\ Rejection = <<>>
    /\ pc \notin {"done", "stopped"}
    /\ pc' = "stopped"
    /\ UNCHANGED <<parked, mode, req, configured, events, calls, run, db, dblog, response>>

SpecStop == Init /\ [][Next \/ Stop]_vars

(* ----------------------- follow-up after follow-up -------------------- *)

\* the number of version rows up to which a further follow-up is sent
MaxVersions == 3

\* the run has ended with saved and the client sends its follow-up request
\* again: the endpoint starts a new followup_stream on the store as it is
Again ==
    /\ mode = "followup" /\ pc = "done"
    /\ events # <<>> /\ events[Len(events)].stage = "saved"
    /\ Len(db.versions) < MaxVersions
    /\ pc' = "start"
    /\ events' = <<>> /\ calls' = <<>> /\ dblog' = <<>>
    /\ run' = [NoLocals EXCEPT !.project_id = req.project_id]
    /\ UNCHANGED <<parked, mode, req, configured, db, response>>

\* follow-up requests of user u1 on the project of the persisted initial run
InitSeq ==
    /\ mode = "followup"
    /\ configured = TRUE
    /\ \E cf \in CurrentFileSets :
          req = [prompt |-> "Build a todo app", user_id |-> "u1", project_id |-> SeedId,
                 current_files |-> cf]
    /\ db = SeedDb
    /\ pc = "start"
    /\ events = <<>>
    /\ calls = <<>>
    /\ run = [NoLocals EXCEPT !.project_id = SeedId]
    /\ dblog = <<>>
    /\ response = NoResponse
    /\ parked = Alone

SpecSeq == InitSeq /\ [][FS_Modifying \/ (FS_CoderCall /\ FollowsRequest') \/ FS_Persist \/ Again]_vars

(* ------------------------- runs that go on ---------------------------- *)

\* one run whose models answer its request
NextLive ==
    \/ GS_Planning
    \/ GS_PlanCall /\ FollowsRequest'
    \/ GS_Architecting
    \/ GS_ArchitectCall
    \/ GS_Coding
    \/ GS_CoderCall /\ FollowsRequest'
    \/ GS_Reviewing
    \/ GS_ReviewerCall /\ FollowsRequest'
    \/ GS_Persist
    \/ FS_Modifying
    \/ FS_CoderCall /\ FollowsRequest'
    \/ FS_Persist
    \/ B_Planner /\ FollowsRequest'
    \/ B_Architect
    \/ B_Coder /\ FollowsRequest'
    \/ Reject

\* every model call and every store call returns or raises, and the consumer
\* keeps reading: a step that can be taken is taken
SpecLive == Init /\ [][NextLive]_vars /\ WF_vars(NextLive)

(* ------------------------ the stream of a run ------------------------- *)

\* the stages of the events yielded so far, in order
StageSeq == [i \in 1..Len(events) |-> events[i].stage]

Emitted(stage) == \E i \in 1..Len(events) : events[i].stage = stage

LastEvent == events[Len(events)]

\* the order of the stages of a successful initial run, up to its terminal event
Canonical ==
    <<"planning", "plan_complete", "architecting", "architect_complete",
      "coding", "coding_complete", "reviewing", "complete">>

IsPrefix(s, t) == Len(s) <= Len(t) /\ SubSeq(t, 1, Len(s)) = s

\* s[i..j] = sub for some i, j
Contains(s, sub) ==
    \E i \in 1..(Len(s) - Len(sub) + 1) : SubSeq(s, i, i + Len(sub) - 1) = sub

\* the stages before the first terminal event (error or complete)
BeforeTerminal(s) ==
    IF \E i \in 1..Len(s) : s[i] \in {"error", "complete"}
    THEN SubSeq(s, 1, (CHOOSE i \in 1..Len(s) : /\ s[i] \in {"error", "complete"}
                                                /\ \A j \in 1..(i - 1) : s[j] \notin {"error", "complete"}) - 1)
    ELSE s

\* the call of the model, if it was made
CallsOf(model) == {i \in 1..Len(calls) : calls[i].model = model}

(* -------------------------------- claims ------------------------------ *)

\* C1: a successful initial run (one that yields complete) yields exactly
\* planning, plan_complete, architecting, architect_complete, coding,
\* coding_complete, reviewing, complete, in this order and each once,
\* followed by nothing or by exactly one of saved and save_error.
C1_SuccessfulRunOrder ==
    (mode = "stream" /\ Emitted("complete")) =>
        StageSeq \in {Canonical, Canonical \o <<"saved">>, Canonical \o <<"save_error">>}

C1_Witness == mode = "stream" /\ pc = "done" /\ StageSeq = Canonical \o <<"saved">>

\* C2: in every run of generate_stream, successful or not, the events before
\* the terminal event are a prefix of the canonical order (so no completion
\* event without its start event, no stage before the previous one completed)
\* and no stage is yielded twice.
C2_StagePrefix ==
    mode = "stream" =>
        /\ IsPrefix(BeforeTerminal(StageSeq), SubSeq(Canonical, 1, 7))
        /\ \A i, j \in 1..Len(events) : StageSeq[i] = StageSeq[j] => i = j

C2_Witness ==
    /\ mode = "stream" /\ pc = "done"
    /\ StageSeq = SubSeq(Canonical, 1, 5) \o <<"error">>

\* C3: in every run of generate_stream and of followup_stream an error event
\* is the last event of the run: there is at most one, nothing follows it,
\* and a run that yielded complete yields no error.
C3_ErrorIsTerminal ==
    mode \in {"stream", "followup"} =>
        \A i \in 1..Len(events) :
            StageSeq[i] = "error" => i = Len(events) /\ ~Emitted("complete")

C3_Witness ==
    /\ mode = "followup" /\ pc = "done"
    /\ CallsOf("coder") # {}
    /\ StageSeq = <<"modifying", "error">>

\* C4: when the planner or the architect model returns None, no model is
\* called afterwards and the run is over: the stream's next and last event is
\* error, the batch endpoint answers with the error raised; and no model is
\* invoked twice in a run.
C4_EmptyResponseIsFatal ==
    /\ \A i \in 1..Len(calls) :
          (calls[i].model \in {"planner", "architect"} /\ calls[i].result = "none") =>
              /\ i = Len(calls)
              /\ pc = "done"
              /\ mode = "stream" => (Len(events) = calls[i].at + 1 /\ LastEvent.stage = "error")
              /\ mode = "batch" => (response.status = 500 /\ events = <<>>)
    /\ \A i, j \in 1..Len(calls) : calls[i].model = calls[j].model => i = j

C4_Witness ==
    /\ mode = "batch" /\ pc = "done"
    /\ Len(calls) = 2 /\ calls[2].model = "architect" /\ calls[2].result = "none"
    /\ response = Http500(<<MsgArchitectInvalid>>)

\* the coder call of the initial run failed: the call raised, or its text is
\* empty, holds no JSON object, or holds no dict of files
CodingFailed ==
    \E i \in CallsOf("coder") :
        calls[i].result = "raised" \/ run.response_text \in BrokenTexts

\* C5: when the coder call of the initial run fails (the call raises, the
\* response is empty, no JSON object can be extracted, the file set cannot be
\* normalized), the event after coding is the terminal error: no
\* coding_complete, reviewing, complete, saved or save_error is yielded.
C5_CodingFailureIsFatal ==
    (mode = "stream" /\ CodingFailed) =>
        /\ StageSeq = SubSeq(Canonical, 1, 5) \o <<"error">>
        /\ pc = "done"

C5_Witness ==
    /\ mode = "stream" /\ pc = "done"
    /\ run.response_text = <<"Here", SP, LBRACE, "files", COLON>>
    /\ LastEvent.stage = "error"

\* C6: once the reviewer model has answered, the run never yields error: it
\* yields complete, and when the answer is no JSON object the feedback of
\* the complete event is the raw text of the reviewer.
C6_ReviewNeverFails ==
    (mode = "stream" /\ \E i \in CallsOf("reviewer") : calls[i].result = "text") =>
        /\ ~Emitted("error")
        /\ Emitted("complete")
        /\ JsonLoads(UnfenceReview(Strip(run.review_text))).val.k # "obj" =>
              events[8].review = PyStr(run.review_text)

\* C7: when every store call of an otherwise successful run (initial or
\* follow-up) fails, the run ends with complete followed by save_error and
\* yields no saved.
C7_FailedSaveIsReported ==
    (/\ mode \in {"stream", "followup"} /\ pc = "done"
     /\ dblog # <<>> /\ \A i \in 1..Len(dblog) : ~dblog[i].ok) =>
        /\ Len(events) >= 2
        /\ events[Len(events) - 1].stage = "complete"
        /\ LastEvent.stage = "save_error"
        /\ ~Emitted("saved")

\* C8: every store call of a run is issued after complete was yielded; calls
\* are issued only when the store is configured and the request has a user
\* id; a run that yields error, and a batch run, issue none.
C8_WritesFollowComplete ==
    /\ \A i \in 1..Len(dblog) : \E j \in 1..dblog[i].at : events[j].stage = "complete"
    /\ dblog # <<>> => (configured /\ req.user_id # NoId /\ mode # "batch")
    /\ Emitted("error") => dblog = <<>>

C8_Witness ==
    /\ mode = "followup" /\ pc = "done"
    /\ \E i \in 1..Len(dblog) : dblog[i].op = "versions.insert" /\ dblog[i].ok
    /\ StageSeq = <<"modifying", "complete", "saved">>

\* the message of the failure of the run: of the error event, or of the
\* HTTP 500 response
FailureMessage == IF mode = "batch" THEN response.detail ELSE LastEvent.message

\* C9: when the text of the coder holds no JSON object, directly or in a
\* brace span, the error message of the run contains the preview of the text,
\* in generate_stream as in the batch endpoint.
C9_ErrorCarriesPreview ==
    (/\ mode \in {"stream", "batch"} /\ pc = "done"
     /\ \E i \in CallsOf("coder") : calls[i].result = "text"
     /\ run.response_text \in UnparsableTexts) =>
        Contains(FailureMessage, Preview(CleanFences(run.response_text)))

\* the file sets of the coding_complete and complete events
Delivered ==
    {events[i].files : i \in {j \in 1..Len(events) :
                                events[j].stage \in {"coding_complete", "complete"}}}

\* the keys of a file set that name the canonical entry point
EntryPoints(files) == {path \in DOMAIN files.m : Lower(path) \in {"/app.tsx", "app.tsx"}}

\* C10: no file set of a coding_complete or complete event, of the initial
\* or of the follow-up run, has a key whose lower case is app.js or app.jsx
\* with or without a leading separator, and none has two entry points.
C10_DeliveredIsNormalized ==
    mode \in {"stream", "followup"} =>
        \A files \in Delivered :
            files.k = "obj" =>
                /\ \A path \in DOMAIN files.m : Lower(path) \notin Denylist
                /\ Cardinality(EntryPoints(files)) <= 1

(* ----------------------- claims on the Code stage --------------------- *)

\* the Code stage of the initial run (streaming or batch) returned a file set
CoderSucceeded ==
    \/ mode = "stream" /\ Emitted("coding_complete")
    \/ mode = "batch" /\ response.status = 200

\* the parse of the text of the coder, and the file set selected from it
\* before the removal step
ParsedResponse == LoadOrSalvage(CleanFences(run.response_text))
Selected == SelectFiles(ParsedResponse.data).val

\* a path in lower case without one leading separator
BaseName(p) ==
    CASE Lower(p) = "/app.tsx" -> "app.tsx"
      [] Lower(p) = "/app.js" -> "app.js"
      [] Lower(p) = "/app.jsx" -> "app.jsx"
      [] Lower(p) = "/package.json" -> "package.json"
      [] Lower(p) = "/readme.md" -> "readme.md"
      [] OTHER -> Lower(p)

\* C11: the file set the Code stage returns after its removal step has no
\* key that, in lower case and without one leading separator, is app.js or
\* app.jsx; it has at most one entry-point key, and none only when the
\* model's file set had none.
C11_NormalizedOneEntryPoint ==
    CoderSucceeded =>
        /\ \A path \in DOMAIN run.files_dict.m : BaseName(path) \notin {"app.js", "app.jsx"}
        /\ Cardinality(EntryPoints(run.files_dict)) <= 1
        /\ EntryPoints(run.files_dict) = {} => EntryPoints(Selected) = {}

\* C12: the removal step is idempotent: applied to the file set the Code
\* stage returned (the model's file set after one removal) it changes nothing.
C12_RemovalIdempotent ==
    CoderSucceeded =>
        /\ run.files_dict = RemoveConflicting(Selected)
        /\ RemoveConflicting(run.files_dict) = run.files_dict

C12_Witness ==
    /\ CoderSucceeded
    /\ Cardinality(DOMAIN Selected.m \ DOMAIN run.files_dict.m) = 2

\* the first '{' and the last '}' of a text
FirstOpen(t) == CHOOSE i \in 1..Len(t) : t[i] = LBRACE /\ \A j \in 1..(i - 1) : t[j] # LBRACE
LastClose(t) == CHOOSE i \in 1..Len(t) : t[i] = RBRACE /\ \A j \in (i + 1)..Len(t) : t[j] # RBRACE

\* the file set of BaseDoc after the removal step
BaseFiles == JObj([p \in {"/App.tsx"} |-> JStr("code1")])

\* C13: whenever the coder has answered, a text that json.loads accepts
\* after the fence lines are dropped is parsed directly, and the brace span
\* is used only when that fails: then the text from the first '{' to the
\* last '}' is parsed. A document wrapped in a fence (with or without a
\* language tag) or in prose gives the file set of the document.
C13_LayersInOrder ==
    (mode \in {"stream", "batch"} /\ \E i \in CallsOf("coder") : calls[i].result = "text") =>
        LET cleaned == CleanFences(run.response_text)
        IN  /\ JsonLoads(cleaned).ok =>
                  ParsedResponse.why = "direct" /\ ParsedResponse.data = JsonLoads(cleaned).val
            /\ ParsedResponse.why = "salvage" =>
                  /\ ~JsonLoads(cleaned).ok
                  /\ ParsedResponse.data =
                        JsonLoads(SubSeq(cleaned, FirstOpen(cleaned), LastClose(cleaned))).val
            /\ run.response_text \in WrappedTexts =>
                  /\ CoderSucceeded /\ run.files_dict = BaseFiles
                  /\ Head(Strip(run.response_text)) = FENCE => ParsedResponse.why = "direct"

C13_Witness ==
    /\ mode = "stream" /\ Emitted("coding_complete")
    /\ run.response_text = <<"Here", SP>> \o BaseDoc \o <<SP, "thanks">>
    /\ ParsedResponse.why = "salvage"
    /\ events[6].files = BaseFiles

\* texts with no brace-delimited JSON object: empty, prose, an array, a
\* number, a string, null
NoObjectTexts ==
    {<<>>, <<"Here">>, <<LBRACK, "1", RBRACK>>, <<"1">>, <<"code1">>, <<"null">>}

\* C14: for a coder text without a brace-delimited JSON object the Code
\* stage fails with its extraction error (no JSON object found, or the
\* JSON could not be parsed) and returns no file set.
C14_NoObjectIsExtractionError ==
    (/\ mode \in {"stream", "batch"} /\ pc = "done"
     /\ \E i \in CallsOf("coder") : calls[i].result = "text"
     /\ run.response_text \in NoObjectTexts) =>
        /\ ~CoderSucceeded
        /\ Head(FailureMessage) \in {MsgNoJson, MsgBadJson}

\* C15: when the extractor of the Code stage recovers from the reviewer's
\* text an object with a review_feedback member, the review of the complete
\* event is that member.
C15_ReviewUsesSameExtractor ==
    (mode = "stream" /\ Emitted("complete")) =>
        LET found == LoadOrSalvage(CleanFences(run.review_text))
        IN  (found.ok /\ found.data.k = "obj" /\ "review_feedback" \in DOMAIN found.data.m) =>
                events[8].review = found.data.m["review_feedback"]

(* ----------------------- claims on the follow-up ---------------------- *)

\* C17: a follow-up that the endpoint let through and whose current files
\* have neither /App.tsx nor App.tsx calls no model and no store: its events
\* are modifying, then the error of the precondition, and nothing else.
C17_MissingEntryPointFailsEarly ==
    (/\ mode = "followup" /\ Rejection = <<>>
     /\ DOMAIN req.current_files \cap {"/App.tsx", "App.tsx"} = {}) =>
        /\ calls = <<>>
        /\ dblog = <<>>
        /\ db \in {EmptyDb, SeedDb}
        /\ IsPrefix(StageSeq, <<"modifying", "error">>)
        /\ pc = "done" => (StageSeq = <<"modifying", "error">>
                           /\ LastEvent.message = <<MsgNoAppTsx>>)

C17_Witness ==
    /\ mode = "followup" /\ pc = "done"
    /\ DOMAIN req.current_files = {"/package.json"}
    /\ configured /\ req.user_id # NoId /\ req.project_id # NoId
    /\ StageSeq = <<"modifying", "error">>

\* the columns of a project row that hold the outputs of the initial run
SnapshotColumns ==
    {"plan_snapshot", "architect_snapshot", "diagram_snapshot", "review_snapshot"}

\* C18: after a follow-up on a project that an initial run has persisted
\* is itself persisted, the plan, architecture, diagram and review
\* snapshots of the project row are those the initial run wrote.
C18_FollowupKeepsSnapshots ==
    (/\ mode = "followup" /\ pc = "done" /\ Emitted("saved")
     /\ req.project_id \in DOMAIN db.projects) =>
        \A c \in SnapshotColumns :
            db.projects[req.project_id][c] = SeedDb.projects[req.project_id][c]

(* ------------------------- claims on the modes ------------------------ *)

\* the models called so far, in the order of the calls
ModelSeq == [i \in 1..Len(calls) |-> calls[i].model]

\* C19: a successful initial run calls the planner, the architect, the
\* coder and the reviewer, in this order, in the batch mode as in the
\* streaming mode.
C19_SameStagesInBothModes ==
    (pc = "done" /\ (\/ mode = "stream" /\ Emitted("complete")
                     \/ mode = "batch" /\ response.status = 200)) =>
        ModelSeq = <<"planner", "architect", "coder", "reviewer">>

(* --------------------- claims on concurrent runs ---------------------- *)

\* the working data of the two runs
BothRuns == {Context, parked}

\* the architect of the run returned a TaskPlan
ArchitectReturned(ctx) ==
    \E i \in 1..Len(ctx.calls) :
        ctx.calls[i].model = "architect" /\ ctx.calls[i].result = "object"

\* C16: in each of two interleaved runs (streaming, or batch), once the
\* architect has returned, the plan of the run's TaskPlan is the Plan that
\* the planner of the same run returned, whatever plan the architect model
\* put there, and never the plan of the other run.
C16_PlanBackReference ==
    \A ctx \in BothRuns :
        ArchitectReturned(ctx) =>
            /\ ctx.run.task_plan_resp.plan = ctx.run.plan_resp
            /\ ctx.run.plan_resp = AnswerFor(ctx.req.prompt).plan

C16_Witness ==
    /\ \A ctx \in BothRuns : ArchitectReturned(ctx)
    /\ parked.mode \in {"stream", "batch"}
    /\ parked.req.prompt = "Build a todo app"
    /\ parked.run.task_plan_resp.architecture_diagram = <<"graph TD">>
    /\ parked.run.task_plan_resp.plan.name = "todo"
    /\ run.task_plan_resp.plan.name = "blog"

\* what a run may hold of its own: the file set and the review that its
\* answers give
OwnFiles(prompt) == RunCoderAgent(AnswerFor(prompt).text).val
OwnReview(prompt) == ParseReview(AnswerFor(prompt).review).val
\* the reviews a run may hold: none yet, the one of an empty answer, its own
OwnReviews(prompt) == {None, ParseReview(<<>>).val, OwnReview(prompt)}
OwnPlanText(prompt) == format_plan_as_text(AnswerFor(prompt).plan)

\* the locals and the events of a run hold only the data of its request
OwnDataOnly(ctx) ==
    /\ ctx.run.plan_resp \in {NoPlan, AnswerFor(ctx.req.prompt).plan}
    /\ ctx.run.task_plan_resp.plan \in {NoPlan, AnswerFor(ctx.req.prompt).plan}
    /\ ctx.run.files_dict \in {None, OwnFiles(ctx.req.prompt)}
    /\ ctx.run.review_feedback \in OwnReviews(ctx.req.prompt)
    /\ \A i \in 1..Len(ctx.events) :
          /\ ctx.events[i].plan \in {<<>>, OwnPlanText(ctx.req.prompt)}
          /\ ctx.events[i].files \in {None, OwnFiles(ctx.req.prompt)}
          /\ ctx.events[i].review \in OwnReviews(ctx.req.prompt)
    /\ ctx.response.files \in {None, OwnFiles(ctx.req.prompt)}
    /\ ctx.response.plan \in {<<>>, OwnPlanText(ctx.req.prompt)}

\* the request whose runs write the project: the blog run creates the
\* projects named blog, every other project belongs to the todo runs
OwnerOf(project_id) ==
    IF db.projects[project_id].name = "blog" THEN "Build a blog" ELSE "Build a todo app"

\* the paths of a stored code snapshot, combined or flat
SnapshotPaths(cs) ==
    IF cs.k # "obj" THEN {}
    ELSE IF "files" \in DOMAIN cs.m /\ cs.m["files"].k = "obj" THEN DOMAIN cs.m["files"].m
    ELSE DOMAIN cs.m

\* a stored row holds only the plan and the files of the owner of its project
OwnRow(row, prompt) ==
    /\ row.plan_snapshot \in {None, PyStr(<<>>), PyStr(OwnPlanText(prompt))}
    /\ SnapshotPaths(row.code_snapshot) \in {{}, DOMAIN OwnFiles(prompt).m}

\* C20: while two runs are interleaved, the locals, the events and the
\* response of each hold only the plan, the file set and the review of its
\* own request, and every project row and version row of the store holds
\* only the data of the runs of its project.
C20_RunsAreIsolated ==
    /\ \A ctx \in BothRuns : OwnDataOnly(ctx)
    /\ \A id \in DOMAIN db.projects : OwnRow(db.projects[id], OwnerOf(id))
    /\ \A i \in 1..Len(db.versions) :
          /\ db.versions[i].project_id \in DOMAIN db.projects
          /\ OwnRow(db.versions[i], OwnerOf(db.versions[i].project_id))

C20_Witness ==
    /\ pc = "done" /\ parked.pc = "done"
    /\ \E i \in 1..Len(events) : events[i].stage = "saved"
    /\ \E i \in 1..Len(parked.events) : parked.events[i].stage = "saved"
    /\ \E a, b \in DOMAIN db.projects :
          /\ db.projects[a].name = "blog" /\ db.projects[b].name = "todo"
          /\ SnapshotPaths(db.projects[a].code_snapshot) = {"/App.tsx", "/package.json"}
          /\ SnapshotPaths(db.projects[b].code_snapshot) = {"/App.tsx"}

(* ------------------ claims on the delivered file set ------------------ *)

\* the file sets of the coding_complete events
CodingCompleteFiles ==
    {events[i].files : i \in {j \in 1..Len(events) : events[j].stage = "coding_complete"}}

\* C21: every coding_complete event carries a file set that has the
\* canonical entry point /App.tsx, the manifest /package.json and the
\* description /README.md.
C21_CodingCompleteHasEntryPoint ==
    \A files \in CodingCompleteFiles :
        /\ files.k = "obj"
        /\ {"/App.tsx", "/package.json", "/README.md"} \subseteq DOMAIN files.m


(* ------------------------ claims on the follow-up output -------------- *)

\* the complete event of the run
CompleteEvent == events[CHOOSE i \in 1..Len(events) : events[i].stage = "complete"]

\* the file set the parsed response of the model holds: the value of its
\* files key, or the whole object when it has none
ReturnedFiles ==
    IF "files" \in DOMAIN ParsedResponse.data.m THEN ParsedResponse.data.m["files"]
    ELSE ParsedResponse.data

\* C22: the files of the complete event of a follow-up are exactly the
\* files the model returned, so no path of the current files that the model
\* did not return is among them; the summary is the summary of the model
\* when its response has one, and "Modifications applied successfully."
\* otherwise.
C22_FollowupReplaces ==
    (mode = "followup" /\ Emitted("complete")) =>
        /\ CompleteEvent.files = ReturnedFiles
        /\ CompleteEvent.files.k = "obj" =>
              \A p \in DOMAIN req.current_files :
                  p \notin DOMAIN ReturnedFiles.m => p \notin DOMAIN CompleteEvent.files.m
        /\ CompleteEvent.summary =
              IF "summary" \in DOMAIN ParsedResponse.data.m
              THEN ParsedResponse.data.m["summary"]
              ELSE DefaultSummary

C22_Witness ==
    /\ mode = "followup" /\ Emitted("complete")
    /\ DOMAIN req.current_files = {"App.tsx", "/package.json"}
    /\ CompleteEvent.files.k = "obj"
    /\ DOMAIN CompleteEvent.files.m = {"/App.tsx"}
    /\ CompleteEvent.summary = JStr("did it")


(* ------------------------ claims on the store ------------------------- *)

\* the run was saved and no call it issued to the store raised
SavedCleanly ==
    /\ pc = "done" /\ Emitted("saved")
    /\ \A i \in 1..Len(dblog) : dblog[i].ok

\* the store after the persistence step of the run is performed once more
\* with the same data and no failure
PersistedAgain ==
    IF mode = "stream"
    THEN PersistInitial(db, req.user_id, run.project_id, req.prompt, run.plan_resp,
                        run.plan_text, run.architect_text, run.diagram_code, run.files_dict,
                        run.review_feedback, {}, TRUE).db
    ELSE PersistFollowup(db, req.project_id, req.prompt, run.files_dict, run.summary, {}).db

\* C23: the persistence step is idempotent: after a run was saved, performing
\* its persistence step again with the same data and the same project
\* identifier leaves the projects and the versions of the store as they are.
C23_PersistIsIdempotent ==
    SavedCleanly => PersistedAgain = db


(* --------------------- claims on the model calls ---------------------- *)

\* the event that starts the stage of a model, the event that completes it,
\* and the event that completes the stage before it ("" when it is the first)
StartOf(model) ==
    CASE model = "planner" -> "planning"
      [] model = "architect" -> "architecting"
      [] model = "coder" -> IF mode = "followup" THEN "modifying" ELSE "coding"
      [] OTHER -> "reviewing"
CompletionOf(model) ==
    CASE model = "planner" -> "plan_complete"
      [] model = "architect" -> "architect_complete"
      [] model = "coder" -> IF mode = "followup" THEN "complete" ELSE "coding_complete"
      [] OTHER -> "complete"
PreviousOf(model) ==
    CASE model = "planner" -> ""
      [] model = "architect" -> "plan_complete"
      [] model = "coder" -> IF mode = "followup" THEN "" ELSE "architect_complete"
      [] OTHER -> "coding_complete"

\* C24: in a streaming run and in a follow-up, the last event yielded before
\* a model call is the start event of the stage of that model, the event
\* yielded next after the call is the completion event of the stage or
\* error, and the event before the start event is the completion event of
\* the previous stage (for the first stage there is none).
C24_CallsInsideTheirStage ==
    mode \in {"stream", "followup"} =>
        \A i \in 1..Len(calls) :
            /\ calls[i].at >= 1
            /\ events[calls[i].at].stage = StartOf(calls[i].model)
            /\ calls[i].at < Len(events) =>
                  events[calls[i].at + 1].stage \in {CompletionOf(calls[i].model), "error"}
            /\ IF PreviousOf(calls[i].model) = "" THEN calls[i].at = 1
               ELSE /\ calls[i].at >= 2
                    /\ events[calls[i].at - 1].stage = PreviousOf(calls[i].model)
            /\ \A j \in 1..(i - 1) : calls[j].at < calls[i].at

C24_Witness ==
    /\ mode = "stream" /\ Emitted("complete")
    /\ [i \in 1..Len(calls) |-> calls[i].at] = <<1, 3, 5, 7>>


(* ------------------- claims on the removal step ----------------------- *)

\* C25: the removal step of the Code stage takes away only keys whose lower
\* case is denylisted: every other key the model returned, the entry point
\* among them, is in the result with the content the model gave it, and the
\* result has no key the model did not return.
C25_RemovesOnlyDenylisted ==
    CoderSucceeded =>
        /\ DOMAIN run.files_dict.m \subseteq DOMAIN Selected.m
        /\ \A path \in DOMAIN Selected.m :
              Lower(path) \notin {"/app.js", "/app.jsx", "app.js", "app.jsx"} =>
                  /\ path \in DOMAIN run.files_dict.m
                  /\ run.files_dict.m[path] = Selected.m[path]

C25_Witness ==
    /\ CoderSucceeded
    /\ DOMAIN Selected.m = {"App.tsx", "app.jsx"}
    /\ DOMAIN run.files_dict.m = {"App.tsx"}


(* ------------------- claims on the selection step --------------------- *)

\* the Code stage, or the follow-up, returned a file set
FilesReturned == CoderSucceeded \/ (mode = "followup" /\ Emitted("complete"))

\* the file set as the stage returns it: the initial Code stage applies its
\* removal step to what it selected, the follow-up returns it as selected
AsReturned(files) ==
    IF mode = "followup" \/ files.k # "obj" THEN files
    ELSE JObj(Restrict(files.m, {path \in DOMAIN files.m : Lower(path) \notin Denylist}))

\* C26: when the response parsed to an object, the file set of the stage is
\* the value of the files key of the object if it has one, and the whole
\* object otherwise, in the initial Code stage (up to its removal step) and
\* in the follow-up.
C26_FilesKeyOrWholeObject ==
    (FilesReturned /\ ParsedResponse.data.k = "obj") =>
        IF "files" \in DOMAIN ParsedResponse.data.m
        THEN run.files_dict = AsReturned(ParsedResponse.data.m["files"])
        ELSE run.files_dict = AsReturned(ParsedResponse.data)

C26_Witness ==
    /\ mode = "stream" /\ Emitted("coding_complete")
    /\ DOMAIN ParsedResponse.data.m = {"files", "summary"}
    /\ DOMAIN run.files_dict.m = {"/App.tsx"}


\* the paths that start with the path separator
Rooted == {"/App.tsx", "/App.js", "/APP.JSX", "/package.json", "/README.md", "/src/App.js"}

\* C27: every key of a file set delivered to the caller, in a
\* coding_complete or complete event or in the response of the batch
\* endpoint, starts with the path separator.
C27_KeysStartWithSeparator ==
    /\ \A files \in Delivered : files.k = "obj" => DOMAIN files.m \subseteq Rooted
    /\ response.files.k = "obj" => DOMAIN response.files.m \subseteq Rooted


(* ------------------- claims on the architecture diagram --------------- *)

\* what extract_architecture_diagram may be handed: None, an object without
\* the attribute, a diagram that is None or a number, and each diagram string
DiagramInputs ==
    {None, JObj(<<>>), JObj([a \in {"architecture_diagram"} |-> None]),
     JObj([a \in {"architecture_diagram"} |-> JNum])}
    \cup {JObj([a \in {"architecture_diagram"} |-> PyStr(d)]) : d \in Diagrams}

\* the input is an object whose diagram is a string
HasDiagramString(v) ==
    /\ v.k = "obj" /\ "architecture_diagram" \in DOMAIN v.m
    /\ v.m["architecture_diagram"].k = "str"

\* C28: extract_architecture_diagram returns a string for every input, the
\* empty string when the TaskPlan is absent, lacks the diagram or holds one
\* that is no string, and the diagram without its fence lines otherwise; and
\* in a streaming run every TaskPlan the architect returns is followed by
\* architect_complete, whatever its diagram.
C28_DiagramNeverFails ==
    /\ \A v \in DiagramInputs :
          /\ ExtractDiagram(v) \in Seq({FENCE, NL, SP, "mermaid", "graph TD"})
          /\ ~HasDiagramString(v) => ExtractDiagram(v) = <<>>
          /\ \A i \in 1..Len(ExtractDiagram(v)) : ExtractDiagram(v)[i] # FENCE
    /\ mode = "stream" =>
          \A i \in 1..Len(calls) :
              (calls[i].model = "architect" /\ calls[i].result = "object") =>
                  /\ events[calls[i].at + 1].stage = "architect_complete"
                  /\ events[calls[i].at + 1].diagram =
                        ExtractDiagram(JObj([a \in {"architecture_diagram"} |->
                                               PyStr(run.task_plan_resp.architecture_diagram)]))

C28_Witness ==
    /\ mode = "stream" /\ Emitted("architect_complete")
    /\ StartsWithFence(run.task_plan_resp.architecture_diagram)
    /\ run.diagram_code = <<"graph TD">>


(* ----------------------- claims on the endpoints ---------------------- *)

\* the request has an empty or whitespace-only prompt, or is a follow-up
\* with an empty current_files map
BlankRequest ==
    \/ req.prompt \in {"", " "}
    \/ mode = "followup" /\ req.current_files = NoFiles

\* C29: a request of the streaming, the follow-up or the batch endpoint whose
\* prompt is empty or only whitespace, and a follow-up whose current_files
\* map is empty, is answered with status 400; no event is yielded, no model
\* is called, and no call is issued to the store.
C29_BlankRequestIsRejected ==
    BlankRequest =>
        /\ events = <<>> /\ calls = <<>> /\ dblog = <<>>
        /\ db \in {EmptyDb, SeedDb}
        /\ pc \in {"start", "done"}
        /\ pc = "done" => response.status = 400

C29_Witness ==
    /\ mode = "followup" /\ pc = "done" /\ response.status = 400
    /\ req.prompt = "Build a todo app" /\ req.current_files = NoFiles


(* --------------------- claims on the version rows --------------------- *)

\* the plan, architecture, diagram and review snapshots of a version row
SnapshotsOf(row) ==
    <<row.plan_snapshot, row.architect_snapshot, row.diagram_snapshot, row.review_snapshot>>

\* the version rows of the project of the initial run, oldest first
RowsOfProject == {i \in 1..Len(db.versions) : db.versions[i].project_id = SeedId}

\* C30: across the sequence initial run, follow-up, follow-up, ... every
\* version row of the project carries the plan, architecture, diagram and
\* review snapshots that the initial run saved with the first version: a
\* version saved by a follow-up without them inherits them from the latest
\* version of the project.
C30_VersionsInheritSnapshots ==
    \A i \in RowsOfProject :
        SnapshotsOf(db.versions[i]) =
            <<PyStr(<<"PROJECT PLAN", "todo", "a todo app">>),
              PyStr(<<"IMPLEMENTATION STEPS", "/App.tsx">>),
              PyStr(<<"graph TD">>), PyStr(<<"looks fine">>)>>

C30_Witness ==
    /\ pc = "done" /\ Len(events) = 3 /\ events[3].stage = "saved"
    /\ Cardinality(RowsOfProject) = 3
    /\ \A i \in 1..Len(dblog) : dblog[i].ok
    /\ db.versions[3].summary = DefaultSummary
    /\ db.versions[3].plan_snapshot = PyStr(<<"PROJECT PLAN", "todo", "a todo app">>)


(* ------------------------ claims on termination ----------------------- *)

\* the positions of the terminal events (complete, error) among the events
TerminalAt == {i \in 1..Len(events) : events[i].stage \in {"complete", "error"}}

\* the run has stopped with exactly one terminal event, followed by at most
\* one event, which is saved or save_error
Terminated ==
    /\ pc = "done"
    /\ Cardinality(TerminalAt) = 1
    /\ \A i \in TerminalAt :
          /\ Len(events) <= i + 1
          /\ Len(events) = i + 1 => events[i + 1].stage \in {"saved", "save_error"}

StoredFiles(cs) ==
    IF cs.k # "obj" THEN cs
    ELSE IF "files" \in DOMAIN cs.m /\ cs.m["files"].k = "obj"
    THEN JObj(IF DOMAIN cs.m["files"].m = {} THEN <<>>
              ELSE [path \in DOMAIN cs.m["files"].m |-> cs.m["files"].m[path].m["code"]])
    ELSE cs

\* the runs that saved to the project of the earlier run
SavedRuns == {ctx \in BothRuns : \E i \in 1..Len(ctx.events) : ctx.events[i].stage = "saved"}

RowUpdates == {i \in 1..Len(dblog) : dblog[i].op = "projects.update"}

\* the run wrote file contents to the project row: its first update (the
\* combined snapshot) went through, or the sync of a non-empty file set did
RowWritten ==
    /\ run.project_id \in DOMAIN db.projects
    /\ \E i \in RowUpdates :
          /\ dblog[i].ok
          /\ (\A j \in RowUpdates : i <= j) \/ (i = Len(dblog) /\ ~Falsy(CompleteEvent.files))

\* the run inserted a version row
VersionWritten == \E i \in 1..Len(dblog) : dblog[i].op = "versions.insert" /\ dblog[i].ok

\* C33: in an initial run the files of complete are the files of
\* coding_complete, and the file contents the run wrote to the project row
\* and the code snapshot of the version row it inserted are the files of
\* complete.
C33_FilesUnchangedAfterCoding ==
    (mode = "stream" /\ Emitted("complete"))
    => /\ CodingCompleteFiles = {CompleteEvent.files}
       /\ (pc = "done" /\ RowWritten)
            => StoredFiles(db.projects[run.project_id].code_snapshot) = CompleteEvent.files
       /\ (pc = "done" /\ VersionWritten)
            => db.versions[Len(db.versions)].code_snapshot = CompleteEvent.files

C33_Witness ==
    /\ mode = "stream" /\ pc = "done" /\ Emitted("saved")
    /\ RowWritten /\ VersionWritten
    /\ \A i \in 1..Len(dblog) : dblog[i].ok
    /\ Cardinality(DOMAIN CompleteEvent.files.m) > 1
    /\ db.projects[run.project_id].code_snapshot = CompleteEvent.files


(* ------------------ claims on the consumer of the stream -------------- *)

\* the consumer stopped reading before it was handed a further event
Stopped == pc = "stopped"

\* C34: a store call is issued only by a run whose consumer took complete
\* and went on reading; once the consumer has stopped reading, no store
\* call and no model call is issued, no event is yielded and the store is
\* left as it is, so a consumer that stops before complete leaves a run that
\* never wrote to the store.
C34_ConsumerDrivesPersistence ==
    /\ [](dblog # <<>> => (~Stopped /\ pc = "done" /\ Emitted("complete")))
    /\ [][Stopped => (Stopped' /\ UNCHANGED <<events, calls, db, dblog>>)]_vars

C34_Witness ==
    /\ Stopped /\ mode = "stream" /\ configured /\ req.user_id # NoId
    /\ events # <<>> /\ LastEvent.stage = "reviewing"
    /\ Len(calls) = 3
    /\ dblog = <<>>


(* ------------------ claims on the follow-up precondition -------------- *)

\* the current files of the request hold the entry-point key, in either spelling
HasEntryPointKey == DOMAIN req.current_files \cap {"/App.tsx", "App.tsx"} # {}

\* C35: a follow-up the endpoint let through whose current files hold the
\* key /App.tsx or App.tsx, whatever is stored under it, does not fail on
\* the precondition: once past modifying, its coder model has been called.
C35_EntryPointKeyPasses ==
    (/\ mode = "followup" /\ Rejection = <<>>
     /\ HasEntryPointKey
     /\ pc \in {"complete", "done"})
    => CallsOf("coder") # {}


(* --------------------- claims on project creation --------------------- *)

\* the calls of the run that insert a project row
Creates == {i \in 1..Len(dblog) : dblog[i].op = "projects.insert"}

\* an initial run with a user id, a configured store and no project id
MayCreate ==
    mode = "stream" /\ req.user_id # NoId /\ configured /\ req.project_id = NoId

\* C36: a run calls create_project at most once, and only as an initial run
\* with a user id, a configured store and no project id; a step adds a
\* project row only in such a run, and one row; an initial run given a
\* project id and a follow-up add none, and a follow-up without a project
\* id issues no store call.
C36_AtMostOneProjectCreated ==
    /\ [](/\ Cardinality(Creates) <= 1
          /\ Creates # {} => MayCreate
          /\ (mode = "followup" /\ req.project_id = NoId) => dblog = <<>>)
    /\ [][DOMAIN db'.projects # DOMAIN db.projects
            => /\ MayCreate /\ dblog = <<>>
               /\ \E id \in ProjectIds \ DOMAIN db.projects :
                     DOMAIN db'.projects = DOMAIN db.projects \cup {id}]_vars

C36_Witness ==
    /\ MayCreate /\ pc = "done" /\ Emitted("saved")
    /\ Cardinality(Creates) = 1
    /\ DOMAIN db.projects = {run.project_id}
    /\ Len(db.versions) = 1

=============================================================================
